---- MODULE Spec2Model ----
(***************************************************************************)
(* Model of the SimpleCppJSON value engine (Json.h / Json.cpp /            *)
(* JsonImpl.h / JsonImpl.cpp): copy-on-write records shared by Impl        *)
(* handles, the thread-local Impl pool, the public Json operations, the    *)
(* serializer and the parser.                                              *)
(***************************************************************************)
EXTENDS Integers, Sequences, FiniteSets, TLC

(***************************************************************************)
(* Bounds of the model.                                                    *)
(***************************************************************************)
MaxImpl == 12
MaxRec == 12
MaxSize == 2
MaxDepth == 2
MaxCowOps == 2
MaxRefOps == 4
MaxMovedOps == 2
MaxCycleOps == 2
MaxRTOps == 4
MaxArrOps == 4
MaxObjOps == 3
MaxErrOps == 2
MaxParseOps == 2
MaxThreadOps == 4
MaxStrLen == 2
MaxStrOps == 3
MaxPoolOps == 4
MaxRunOps == 5

(***************************************************************************)
(* Program constants.                                                      *)
(***************************************************************************)
MAX_POOL_SIZE == 1000
WARMUP_SIZE == 50
SMALL_OBJECT_THRESHOLD == 8
MEDIUM_OBJECT_THRESHOLD == 32

ImplId == 1..MaxImpl
RecId == 1..MaxRec
NoImpl == 0
NoRec == 0

VarNames == {"v", "c"}
\* texts, strings and keys are sequences of bytes (char codes)
KeySet == {<<97>>, <<98>>}

(***************************************************************************)
(* Json::Type and the payload of a COW_Data record (the variant value_).   *)
(* arr is the vector<Json> (each Json is the id of the Impl it owns), obj  *)
(* is the key/Json list of the unordered_map in iteration order, bk the    *)
(* element count its bucket array was last reserved for.                   *)
(***************************************************************************)

Payload(t, b, n, s, arr, obj, bk) ==
    [tag |-> t, b |-> b, n |-> n, s |-> s, arr |-> arr, obj |-> obj, bk |-> bk]

NullP == Payload("Null", FALSE, 0, <<>>, <<>>, <<>>, 0)
BoolP(b) == Payload("Boolean", b, 0, <<>>, <<>>, <<>>, 0)
NumP(n) == Payload("Number", FALSE, n, <<>>, <<>>, <<>>, 0)
StrP(s) == Payload("String", FALSE, 0, s, <<>>, <<>>, 0)
ArrP(arr) == Payload("Array", FALSE, 0, <<>>, arr, <<>>, 0)
ObjP(obj, bk) == Payload("Object", FALSE, 0, <<>>, <<>>, obj, bk)
FreeP == Payload("Free", FALSE, 0, <<>>, <<>>, <<>>, 0)

\* SmartObject::SmartObject : reserve(SMALL_OBJECT_THRESHOLD)
EmptyObject == ObjP(<<>>, SMALL_OBJECT_THRESHOLD)

VARIABLES
    data_,          \* Impl::data_ : the record each Impl points at (NoRec: no such Impl)
    value_,         \* COW_Data::value_ of every record (FreeP: not allocated)
    object_pool_,   \* released Impls above the warm-up entries, top of stack last
    warm,           \* warm-up Impls still in the pool
    warmed,         \* the pool has been initialised (object_pool_ is no longer empty())
    vars,           \* Json::impl_ of each named Json (NoImpl: moved-from)
    scope,          \* the named Jsons that are constructed
    ref,            \* a Json& the program holds: the slot it refers to
    last,           \* the last public operation and its outcome
    ops,            \* number of operations performed
    hist,           \* history: the values pushed on v and not popped after
    parsed,         \* history: the text and mode c was parsed from
    access_count_,  \* SmartObject::access_count_ of the object of each record
    threads,        \* the reader threads: position, registers, thread_local pool
    unpooled        \* the same program on the build whose pool has capacity 0

vars_all ==
    <<data_, value_, object_pool_, warm, warmed, vars, scope, ref, last, ops,
      hist, parsed, access_count_, threads, unpooled>>

(***************************************************************************)
(* The heap as one value, threaded through the operations.  log is the     *)
(* history of the current operation: clones and in-place payload writes.   *)
(***************************************************************************)
Heap ==
    [data_ |-> data_, value_ |-> value_, pool |-> object_pool_,
     warm |-> warm, warmed |-> warmed, vars |-> vars,
     log |-> <<>>, oom |-> FALSE,
     max_pool_size |-> MAX_POOL_SIZE, warmup_size |-> WARMUP_SIZE]

Min(S) == CHOOSE x \in S : \A y \in S : x <= y

FreeImpls(h) == {i \in ImplId : h.data_[i] = NoRec}
FreeRecs(h) == {r \in RecId : h.value_[r].tag = "Free"}

\* std::shared_ptr<COW_Data>::use_count()
UseCount(h, r) == Cardinality({i \in ImplId : h.data_[i] = r})

\* thread_local pool_index_
PoolIndex(h) == h.warm + Len(h.pool)

RECURSIVE MappedImpls(_)
\* the Impls of the mapped Jsons of an entry list, in list order
MappedImpls(obj) ==
    IF obj = <<>> THEN <<>> ELSE <<Head(obj).val>> \o MappedImpls(Tail(obj))

RECURSIVE EntryKeys(_)
\* the keys of an entry list, in list order
EntryKeys(obj) ==
    IF obj = <<>> THEN <<>> ELSE <<Head(obj).key>> \o EntryKeys(Tail(obj))

RECURSIVE WithImpls(_, _)
\* the entry list with the same keys and the Impls of out as mapped Jsons
WithImpls(obj, out) ==
    IF obj = <<>> THEN <<>>
    ELSE <<[key |-> Head(obj).key, val |-> Head(out)]>>
         \o WithImpls(Tail(obj), Tail(out))

RECURSIVE Unkeyed(_)
\* array elements as entries without a key
Unkeyed(arr) ==
    IF arr = <<>> THEN <<>>
    ELSE <<[key |-> <<>>, val |-> Head(arr)]>> \o Unkeyed(Tail(arr))

\* Impls owned by the Jsons stored in a payload, in destruction order
ChildImpls(p) ==
    IF p.tag = "Array" THEN p.arr
    ELSE IF p.tag = "Object" THEN MappedImpls(p.obj)
    ELSE <<>>

(***************************************************************************)
(* Allocation of Impl objects and COW_Data records.  The model has         *)
(* MaxImpl / MaxRec of them; an operation that would need more sets oom    *)
(* and is not taken.                                                       *)
(***************************************************************************)
NewRec(h) == IF FreeRecs(h) = {} THEN 1 ELSE Min(FreeRecs(h))
NewImpl(h) == IF FreeImpls(h) = {} THEN 1 ELSE Min(FreeImpls(h))

\* std::make_shared<COW_Data>(p)
MakeShared(h, r, p) ==
    IF h.oom \/ FreeRecs(h) = {} THEN [h EXCEPT !.oom = TRUE]
    ELSE [h EXCEPT !.value_[r] = p]

RECURSIVE FreeRecord(_, _)
RECURSIVE ReleaseSeq(_, _)
RECURSIVE ReleaseImpl(_, _)
RECURSIVE DeleteImpl(_, _)

\* the last shared_ptr to r went away: ~COW_Data destroys the payload, and
\* each Json in it hands its Impl to ReleaseImpl (Json::~Json)
FreeRecord(h, r) ==
    ReleaseSeq([h EXCEPT !.value_[r] = FreeP,
                         !.log = Append(@, [ev |-> "free", rec |-> r, to |-> r,
                                            impl |-> NoImpl, count |-> 0])],
               ChildImpls(h.value_[r]))

ReleaseSeq(h, s) ==
    IF s = <<>> THEN h ELSE ReleaseSeq(ReleaseImpl(h, Head(s)), Tail(s))

\* Json::Impl::ReleaseImpl : the Impl is pooled as it is, data_ included
ReleaseImpl(h, i) ==
    IF h.oom THEN h
    ELSE IF PoolIndex(h) < h.max_pool_size
    THEN [h EXCEPT !.pool = Append(@, i)]
    ELSE DeleteImpl(h, i)

\* delete of an Impl (~Impl releases data_)
DeleteImpl(h, i) ==
    LET r == h.data_[i]
        h1 == [h EXCEPT !.data_[i] = NoRec]
    IN IF h.oom THEN h
       ELSE IF r # NoRec /\ UseCount(h1, r) = 0 THEN FreeRecord(h1, r) ELSE h1

\* data_ = r : shared_ptr assignment, releasing the record held before
AssignData(h, i, r) ==
    LET old == h.data_[i]
        h1 == [h EXCEPT !.data_[i] = r]
    IN IF h.oom THEN h
       ELSE IF old # NoRec /\ old # r /\ UseCount(h1, old) = 0
       THEN FreeRecord(h1, old) ELSE h1

\* the first AcquireImpl of the thread fills the pool with the warm-up Impls
WarmUp(h) ==
    IF ~h.warmed THEN [h EXCEPT !.warm = h.warmup_size, !.warmed = TRUE] ELSE h

\* the Impl AcquireImpl hands out: the top of the pool when the pool holds a
\* released Impl, a warm-up Impl or a new one otherwise; result is [h, i]
PopImpl(h) ==
    IF PoolIndex(h) > 0 /\ Len(h.pool) > 0
    THEN [h |-> [h EXCEPT !.pool = SubSeq(@, 1, Len(@) - 1)],
          i |-> h.pool[Len(h.pool)]]
    ELSE IF FreeImpls(h) = {} THEN [h |-> [h EXCEPT !.oom = TRUE], i |-> 1]
    ELSE [h |-> [h EXCEPT !.warm = IF @ > 0 THEN @ - 1 ELSE @], i |-> NewImpl(h)]

\* impl->data_ = std::make_shared<COW_Data>()
FreshData(h, i, nr) == AssignData(MakeShared(h, nr, NullP), i, nr)

\* the reset of the Impl handed out
ResetImpl(a) == [h |-> FreshData(a.h, a.i, NewRec(a.h)), i |-> a.i]

\* Json::Impl::AcquireImpl : result is [h, i], i the Impl handed out
AcquireImpl(h) ==
    IF h.oom THEN [h |-> h, i |-> 1] ELSE ResetImpl(PopImpl(WarmUp(h)))

\* data_ = other.data_ on the Impl just acquired
ShareData(a, src) == [h |-> AssignData(a.h, a.i, a.h.data_[src]), i |-> a.i]

\* Json::Json(const Json&) : a new Impl that shares the record of src
CopyJson(h, src) == ShareData(AcquireImpl(h), src)

\* one more copy at the end of the list of copies made so far
WithCopy(acc, c) == [h |-> c.h, out |-> Append(acc.out, c.i)]

RECURSIVE CopyJsons(_, _)
\* copy of the Jsons of a payload, in order: acc and the result are [h, out]
CopyJsons(acc, s) ==
    IF s = <<>> THEN acc
    ELSE CopyJsons(WithCopy(acc, CopyJson(acc.h, Head(s))), Tail(s))

\* the variant p with the copies c.out in the place of its Jsons
PayloadWith(p, c) ==
    [h |-> c.h,
     p |-> IF p.tag = "Array" THEN ArrP(c.out)
           ELSE IF p.tag = "Object" THEN ObjP(WithImpls(p.obj, c.out), p.bk)
           ELSE p]

\* copy of the variant held by a record: result is [h, p]
CopyPayload(h, p) ==
    PayloadWith(p, CopyJsons([h |-> h, out |-> <<>>], ChildImpls(p)))

\* data_ = std::move(new_data), and the event of the clone
Relink(h, i, old, nr, count) ==
    [AssignData(h, i, nr) EXCEPT
        !.log = Append(@, [ev |-> "clone", rec |-> old, to |-> nr, impl |-> i,
                           count |-> count])]

\* new_data->value_ = data_->value_ : c is the copy of the variant
StoreCopy(c, nr) == IF c.h.oom THEN c.h ELSE [c.h EXCEPT !.value_[nr] = c.p]

\* the body of EnsureUnique once new_data, the record nr, is made
CloneInto(h, i, old, nr, count) ==
    Relink(StoreCopy(CopyPayload(h, h.value_[old]), nr), i, old, nr, count)

\* EnsureUnique without the copy: the payload is written where it is, shared
\* or not
EnsureUniqueShared(h, i) == h

\* an EnsureUnique that clones only a record with more than two owners
EnsureUniqueAbove(h, i) ==
    IF ~h.oom /\ h.data_[i] # NoRec /\ UseCount(h, h.data_[i]) > 2
    THEN CloneInto(MakeShared(h, NewRec(h), NullP), i, h.data_[i], NewRec(h),
                   UseCount(h, h.data_[i]))
    ELSE h

\* Json::Impl::EnsureUnique
EnsureUnique(h, i) ==
    IF ~h.oom /\ h.data_[i] # NoRec /\ UseCount(h, h.data_[i]) > 1
    THEN CloneInto(MakeShared(h, NewRec(h), NullP), i, h.data_[i], NewRec(h),
                   UseCount(h, h.data_[i]))
    ELSE h

Range(f) == {f[x] : x \in DOMAIN f}

\* an assignment to data_->value_ of the Impl's record, as the Set* methods
\* and the container operations do after EnsureUnique; the Jsons that leave
\* the payload are destroyed
WriteValue(h, i, p) ==
    LET r == h.data_[i]
        gone == SelectSeq(ChildImpls(h.value_[r]),
                          LAMBDA j : j \notin Range(ChildImpls(p)))
        h1 == [h EXCEPT !.value_[r] = p,
                        !.log = Append(@, [ev |-> "write", rec |-> r,
                                           to |-> r, impl |-> i,
                                           count |-> UseCount(h, r)])]
    IN IF h.oom THEN h ELSE ReleaseSeq(h1, gone)

(***************************************************************************)
(* Results of operations: the heap after it, the error raised ("none",     *)
(* "Exception" = JsonException, "TypeError" = JsonTypeError, "ParseError"  *)
(* = JsonParseError, "out_of_range" = std::out_of_range) and the value     *)
(* returned.                                                               *)
(***************************************************************************)
Ret(kind, b, n, s, keys, elems) ==
    [kind |-> kind, b |-> b, n |-> n, s |-> s, keys |-> keys, elems |-> elems]
RNone == Ret("none", FALSE, 0, <<>>, <<>>, <<>>)
RBool(b) == Ret("bool", b, 0, <<>>, <<>>, <<>>)
RNum(n) == Ret("num", FALSE, n, <<>>, <<>>, <<>>)
RStr(t) == Ret("str", FALSE, 0, t, <<>>, <<>>)
RKeys(ks) == Ret("keys", FALSE, 0, <<>>, ks, <<>>)
RElems(es) == Ret("elems", FALSE, 0, <<>>, <<>>, es)
RNullopt == Ret("nullopt", FALSE, 0, <<>>, <<>>, <<>>)

Ok(h, ret) == [h |-> h, err |-> "none", ret |-> ret]
Raise(h, e) == [h |-> h, err |-> e, ret |-> RNone]

\* Json::Impl::Set* : SetNull, SetBoolean, SetNumber, SetString, SetArray, SetObject
SetValue(h, i, p) == WriteValue(EnsureUnique(h, i), i, p)

\* position of key k in the entry list of an object payload, 0 if absent
KeyPos(obj, k) ==
    IF \E q \in 1..Len(obj) : obj[q].key = k
    THEN CHOOSE q \in 1..Len(obj) : obj[q].key = k
    ELSE 0

\* std::unordered_map::operator[] inserting a new key: libstdc++ links the
\* node at the head of the element list (or of its bucket's run), so it
\* precedes the entries present when there is at most one of them
ObjInsert(obj, k, j) == <<[key |-> k, val |-> j]>> \o obj

\* the slot that holds a Json: a named variable or an element of a record
VarLoc(x) == [var |-> x, rec |-> NoRec, pos |-> 0]
ElemLoc(r, q) == [var |-> "", rec |-> r, pos |-> q]

Step(kind, i, s) == [kind |-> kind, i |-> i, s |-> s]

Found(h, loc, j) == [h |-> h, err |-> "none", j |-> j, loc |-> loc]
NotFound(h, loc, j) == [h |-> h, err |-> "Exception", j |-> j, loc |-> loc]

RECURSIVE NavMut(_, _, _, _)

\* an operator[] that, for an absent key, leaves the new key alone in the map
NavInsertAlone(a, j, r, p, path) ==
    NavMut(WriteValue(a.h, j, ObjP(<<[key |-> Head(path).s, val |-> a.i]>>, p.bk)),
           ElemLoc(r, 1), a.i, Tail(path))

\* std::unordered_map::operator[] with a key that is absent: a is the
\* default-constructed Json that enters the map of record r
NavInsert(a, j, r, p, path) ==
    NavMut(WriteValue(a.h, j, ObjP(ObjInsert(p.obj, Head(path).s, a.i), p.bk)),
           ElemLoc(r, 1), a.i, Tail(path))

\* Impl::At(size_t) and Impl::operator[](string_view) on the record r of
\* Impl j, after GetArray() / GetObject() made it unique in heap h
NavStep(h, loc, j, path) ==
    LET st == Head(path)
        r == h.data_[j]
        p == h.value_[r]
    IN IF st.kind = "idx"
       THEN IF p.tag # "Array" \/ st.i >= Len(p.arr) THEN NotFound(h, loc, j)
            ELSE NavMut(h, ElemLoc(r, st.i + 1), p.arr[st.i + 1], Tail(path))
       ELSE IF p.tag # "Object" THEN NotFound(h, loc, j)
            ELSE IF KeyPos(p.obj, st.s) # 0
            THEN NavMut(h, ElemLoc(r, KeyPos(p.obj, st.s)),
                        p.obj[KeyPos(p.obj, st.s)].val, Tail(path))
            ELSE NavInsert(AcquireImpl(h), j, r, p, path)

\* a chain of non-const Json::operator[] calls from the Json at loc that owns
\* Impl j: Json::operator[](size_t) -> Impl::At(size_t) -> GetArray(), and
\* Json::operator[](string_view) -> Impl::operator[] -> GetObject()
NavMut(h, loc, j, path) ==
    IF path = <<>> THEN Found(h, loc, j)
    ELSE IF j = NoImpl THEN NotFound(h, loc, j)
    ELSE NavStep(EnsureUnique(h, j), loc, j, path)

RECURSIVE NavConst(_, _, _)
\* a chain of const Json::operator[] calls: Impl::At(size_t) const and
\* Impl::At(string_view) const, which read the record where it is
NavConst(h, j, path) ==
    IF path = <<>> THEN [h |-> h, err |-> "none", j |-> j]
    ELSE IF j = NoImpl THEN [h |-> h, err |-> "Exception", j |-> j]
    ELSE LET st == Head(path)
             p == h.value_[h.data_[j]]
         IN IF st.kind = "idx"
            THEN IF p.tag # "Array" \/ st.i >= Len(p.arr)
                 THEN [h |-> h, err |-> "Exception", j |-> j]
                 ELSE NavConst(h, p.arr[st.i + 1], Tail(path))
            ELSE IF p.tag # "Object"
                 THEN [h |-> h, err |-> "Exception", j |-> j]
                 ELSE IF KeyPos(p.obj, st.s) = 0
                 THEN [h |-> h, err |-> "out_of_range", j |-> j]
                 ELSE NavConst(h, p.obj[KeyPos(p.obj, st.s)].val, Tail(path))

(***************************************************************************)
(* Serializer: Json::Impl::ToString and its Printer.  Text is a sequence   *)
(* of bytes.                                                               *)
(***************************************************************************)
RECURSIVE Digits(_)
\* decimal digits of a natural number
Digits(n) == IF n < 10 THEN <<48 + n>> ELSE Append(Digits(n \div 10), 48 + (n % 10))

HexDigit(d) == IF d < 10 THEN 48 + d ELSE 87 + d

\* Printer::PrintValue(Number) : ss_ << std::setprecision(17) << value, for
\* the integral values of the model
PrintNumber(n) == IF n < 0 THEN <<45>> \o Digits(0 - n) ELSE Digits(n)

\* one char of Printer::PrintValue(const std::string&)
PrintChar(c) ==
    IF c = 34 THEN <<92, 34>>
    ELSE IF c = 92 THEN <<92, 92>>
    ELSE IF c = 8 THEN <<92, 98>>
    ELSE IF c = 12 THEN <<92, 102>>
    ELSE IF c = 10 THEN <<92, 110>>
    ELSE IF c = 13 THEN <<92, 114>>
    ELSE IF c = 9 THEN <<92, 116>>
    ELSE IF c < 32
    THEN <<92, 117, 48, 48, HexDigit(c \div 16), HexDigit(c % 16)>>
    ELSE <<c>>

RECURSIVE PrintChars(_)
PrintChars(s) == IF s = <<>> THEN <<>> ELSE PrintChar(Head(s)) \o PrintChars(Tail(s))

\* Printer::PrintValue(const std::string&)
PrintString(s) == <<34>> \o PrintChars(s) \o <<34>>

RECURSIVE Spaces(_)
Spaces(n) == IF n = 0 THEN <<>> ELSE Append(Spaces(n - 1), 32)

\* indentation drawn with dots
PrintIndentDots(pretty, indent) == IF pretty /\ indent > 0 THEN <<46>> ELSE <<>>

\* Printer::PrintIndent
PrintIndent(pretty, indent) == IF pretty THEN Spaces(indent * 2) ELSE <<>>

\* Printer::PrintNewline
PrintNewline(pretty) == IF pretty THEN <<10>> ELSE <<>>

Printed(t) == [err |-> "none", text |-> t]
PrintFail == [err |-> "Exception", text |-> <<>>]

RECURSIVE PrintWithCircularCheck(_, _, _, _, _)
RECURSIVE PrintElems(_, _, _, _, _, _)

\* the loops of Printer::PrintValue(const Array&) and PrintValue(const
\* Object&), from element k on; es is the list of [key, val], isObj tells
\* which of the two it is
PrintElems(h, es, k, visiting, pretty, indent) ==
    IF k > Len(es.list) THEN Printed(<<>>)
    ELSE LET e == es.list[k]
             head == PrintIndent(pretty, indent)
                     \o (IF es.isObj
                         THEN PrintString(e.key)
                              \o (IF pretty THEN <<58, 32>> ELSE <<58>>)
                         ELSE <<>>)
             sub == PrintWithCircularCheck(h, e.val, visiting, pretty, indent)
         IN IF sub.err # "none" THEN PrintFail
            ELSE LET rest == PrintElems(h, es, k + 1, visiting, pretty, indent)
                 IN IF rest.err # "none" THEN PrintFail
                    ELSE Printed(head \o sub.text
                                 \o (IF k < Len(es.list) THEN <<44>> ELSE <<>>)
                                 \o PrintNewline(pretty) \o rest.text)

\* Printer::PrintValue for each alternative of the variant
PrintValue(h, p, visiting, pretty, indent) ==
    IF p.tag = "Null" THEN Printed(<<110, 117, 108, 108>>)
    ELSE IF p.tag = "Boolean"
    THEN Printed(IF p.b THEN <<116, 114, 117, 101>>
                 ELSE <<102, 97, 108, 115, 101>>)
    ELSE IF p.tag = "Number" THEN Printed(PrintNumber(p.n))
    ELSE IF p.tag = "String" THEN Printed(PrintString(p.s))
    ELSE LET isObj == p.tag = "Object"
             list == IF isObj THEN p.obj
                     ELSE Unkeyed(p.arr)
             open == IF isObj THEN 123 ELSE 91
             close == IF isObj THEN 125 ELSE 93
         IN IF list = <<>> THEN Printed(<<open, close>>)
            ELSE LET body == PrintElems(h, [list |-> list, isObj |-> isObj], 1,
                                        visiting, pretty, indent + 1)
                 IN IF body.err # "none" THEN PrintFail
                    ELSE Printed(<<open>> \o PrintNewline(pretty) \o body.text
                                 \o PrintIndent(pretty, indent) \o <<close>>)

\* a printer that writes null for an Impl met again instead of failing
PrintWithCircularCheckLax(h, i, visiting, pretty, indent) ==
    IF i \in visiting THEN Printed(<<110, 117, 108, 108>>)
    ELSE PrintValue(h, h.value_[h.data_[i]], visiting \cup {i}, pretty, indent)

\* Printer::PrintWithCircularCheck : visiting holds the Impls being printed
PrintWithCircularCheck(h, i, visiting, pretty, indent) ==
    IF i \in visiting THEN PrintFail
    ELSE PrintValue(h, h.value_[h.data_[i]], visiting \cup {i}, pretty, indent)

\* Json::Impl::ToString
ImplToString(h, i, pretty) == PrintWithCircularCheck(h, i, {}, pretty, 0)

(***************************************************************************)
(* Construction of temporaries.                                            *)
(***************************************************************************)
\* Impl::Set* on the Impl just acquired; Json() and Json(nullptr) set nothing
SetAcquired(a, p) ==
    IF p.tag = "Null" THEN a ELSE [h |-> SetValue(a.h, a.i, p), i |-> a.i]

\* Json::Json(), Json(nullptr), Json(bool), Json(int), Json(double),
\* Json(std::string) : an acquired Impl, then Impl::Set*
MakeScalar(h, p) == SetAcquired(AcquireImpl(h), p)

\* impl_ = std::unique_ptr<Impl>(a) : the Impl first held is deleted
ReplaceImpl(first, a, p) ==
    [h |-> SetValue(DeleteImpl(a.h, first), a.i, p), i |-> a.i]

\* the second AcquireImpl of Json::Array() / Json::Object()
AcquireSecond(a, p) == ReplaceImpl(a.i, AcquireImpl(a.h), p)

\* Json::Array() and Json::Object() : the Impl acquired by the default
\* constructor is deleted when impl_ is assigned the second one
MakeContainer(h, p) == AcquireSecond(AcquireImpl(h), p)

MakeLiteral(h, p) ==
    IF p.tag \in {"Array", "Object"} THEN MakeContainer(h, p) ELSE MakeScalar(h, p)

\* Json::~Json
DestroyJson(h, j) == IF j # NoImpl THEN ReleaseImpl(h, j) ELSE h

\* write of a Json slot: unique_ptr<Impl> assignment inside a variable or
\* inside the payload of a record
SetSlot(h, loc, j) ==
    IF h.oom THEN h
    ELSE IF loc.var # "" THEN [h EXCEPT !.vars[loc.var] = j]
    ELSE LET p == h.value_[loc.rec]
             np == IF p.tag = "Array"
                   THEN ArrP([p.arr EXCEPT ![loc.pos] = j])
                   ELSE ObjP([p.obj EXCEPT ![loc.pos].val = j], p.bk)
         IN [h EXCEPT !.value_[loc.rec] = np,
                      !.log = Append(@, [ev |-> "write", rec |-> loc.rec,
                                         to |-> loc.rec, impl |-> j,
                                         count |-> UseCount(h, loc.rec)])]

\* Json::operator=(Json&&) = default : the slot takes the Impl of the source,
\* the Impl it held is deleted
MoveAssign(h, loc, old, j) ==
    IF old # NoImpl THEN DeleteImpl(SetSlot(h, loc, j), old)
    ELSE SetSlot(h, loc, j)

\* the same, into the slot a chain of operator[] calls arrived at
MoveInto(nav, j) == MoveAssign(nav.h, nav.loc, nav.j, j)

(***************************************************************************)
(* Parser: class JsonParser.  A parser state is [h, pos, line, col, err,   *)
(* j]: the heap, pos_, line_, column_, the error raised and the Impl of    *)
(* the Json returned.                                                      *)
(***************************************************************************)
\* char is a signed type in this build: bytes from 0x80 on are negative
SignedChar(c) == IF c >= 128 THEN c - 256 ELSE c

IsSpace(c) == c \in {9, 10, 11, 12, 13, 32}
IsDigit(c) == c >= 48 /\ c <= 57
IsXDigit(c) == IsDigit(c) \/ (c >= 97 /\ c <= 102) \/ (c >= 65 /\ c <= 70)
HexVal(c) == IF IsDigit(c) THEN c - 48 ELSE IF c >= 97 THEN c - 87 ELSE c - 55

\* JsonParser::Current
Current(inp, ps) == IF ps.pos < Len(inp) THEN inp[ps.pos + 1] ELSE 0

\* JsonParser::Advance
Advance(inp, ps) ==
    IF ps.pos < Len(inp)
    THEN IF inp[ps.pos + 1] = 10
         THEN [ps EXCEPT !.pos = @ + 1, !.line = @ + 1, !.col = 1]
         ELSE [ps EXCEPT !.pos = @ + 1, !.col = @ + 1]
    ELSE ps

RECURSIVE SkipWhitespace(_, _)
\* JsonParser::SkipWhitespace
SkipWhitespace(inp, ps) ==
    IF ps.pos < Len(inp) /\ IsSpace(inp[ps.pos + 1])
    THEN SkipWhitespace(inp, Advance(inp, ps)) ELSE ps

ParseFail(ps) == [ps EXCEPT !.err = "ParseError", !.j = NoImpl]

\* input_.substr(pos_, n) == lit
Looking(inp, ps, lit) ==
    /\ ps.pos + Len(lit) <= Len(inp)
    /\ SubSeq(inp, ps.pos + 1, ps.pos + Len(lit)) = lit

\* return Json(...) : the parser state with the Json m just constructed
Produced(ps, m) == [ps EXCEPT !.h = m.h, !.j = m.i]

Keywords ==
    <<[lit |-> <<110, 117, 108, 108>>, p |-> NullP],
      [lit |-> <<116, 114, 117, 101>>, p |-> BoolP(TRUE)],
      [lit |-> <<102, 97, 108, 115, 101>>, p |-> BoolP(FALSE)]>>

\* a keyword read with pos_ += n alone
AcceptKeywordNoColumn(ps, l) ==
    Produced([ps EXCEPT !.pos = @ + Len(l.lit)], MakeScalar(ps.h, l.p))

\* the keyword l was read: pos_ += n, column_ += n, return Json(...)
AcceptKeyword(ps, l) ==
    Produced([ps EXCEPT !.pos = @ + Len(l.lit), !.col = @ + Len(l.lit)],
             MakeScalar(ps.h, l.p))

\* JsonParser::ParseNull and JsonParser::ParseBoolean
ParseKeyword(inp, ps) ==
    IF \E k \in 1..3 : Looking(inp, ps, Keywords[k].lit)
    THEN AcceptKeyword(ps, Keywords[CHOOSE k \in 1..3 :
                                       Looking(inp, ps, Keywords[k].lit)])
    ELSE ParseFail(ps)

RECURSIVE StringBody(_, _, _)
\* the loop of JsonParser::ParseString: result is [ps, str]
StringBody(inp, ps, acc) ==
    IF ~(ps.pos < Len(inp) /\ Current(inp, ps) # 34)
    THEN [ps |-> ps, str |-> acc]
    ELSE LET c == Current(inp, ps)
         IN IF c = 92
            THEN LET p1 == Advance(inp, ps)
                     e == Current(inp, p1)
                 IN IF p1.pos >= Len(inp)
                    THEN [ps |-> ParseFail(p1), str |-> acc]
                    ELSE IF e = 117
                    THEN IF p1.pos + 4 >= Len(inp)
                         THEN [ps |-> ParseFail(p1), str |-> acc]
                         ELSE LET hx == SubSeq(inp, p1.pos + 2, p1.pos + 5)
                                  cp == HexVal(hx[1]) * 4096 + HexVal(hx[2]) * 256
                                        + HexVal(hx[3]) * 16 + HexVal(hx[4])
                                  p2 == [p1 EXCEPT !.pos = @ + 4, !.col = @ + 4]
                              IN IF \E k \in 1..4 : ~IsXDigit(hx[k])
                                 THEN [ps |-> ParseFail(p1), str |-> acc]
                                 ELSE StringBody(inp, Advance(inp, p2),
                                        Append(acc, IF cp <= 127 THEN cp ELSE 63))
                    ELSE LET m == IF e = 34 THEN 34 ELSE IF e = 92 THEN 92
                                  ELSE IF e = 47 THEN 47 ELSE IF e = 98 THEN 8
                                  ELSE IF e = 102 THEN 12 ELSE IF e = 110 THEN 10
                                  ELSE IF e = 114 THEN 13 ELSE IF e = 116 THEN 9
                                  ELSE 0 - 1
                         IN IF m < 0 THEN [ps |-> ParseFail(p1), str |-> acc]
                            ELSE StringBody(inp, Advance(inp, p1), Append(acc, m))
            ELSE IF SignedChar(c) < 32
            THEN [ps |-> ParseFail(ps), str |-> acc]
            ELSE StringBody(inp, Advance(inp, ps), Append(acc, c))

\* the end of JsonParser::ParseString: the closing quote, return Json(result)
CloseString(inp, b) ==
    IF b.ps.err # "none" THEN b.ps
    ELSE IF Current(inp, b.ps) # 34 THEN ParseFail(b.ps)
    ELSE Produced(Advance(inp, b.ps), MakeScalar(b.ps.h, StrP(b.str)))

\* JsonParser::ParseString
ParseString(inp, ps) ==
    IF Current(inp, ps) # 34 THEN ParseFail(ps)
    ELSE CloseString(inp, StringBody(inp, Advance(inp, ps), <<>>))

RECURSIVE SkipDigits(_, _)
SkipDigits(inp, ps) ==
    IF IsDigit(Current(inp, ps)) THEN SkipDigits(inp, Advance(inp, ps)) ELSE ps

RECURSIVE DecVal(_)
\* value of a sequence of decimal digits
DecVal(ds) == IF ds = <<>> THEN 0 ELSE DecVal(SubSeq(ds, 1, Len(ds) - 1)) * 10 + (ds[Len(ds)] - 48)

RECURSIVE StripZeros(_)
\* the digits ds without the zeros that lead them
StripZeros(ds) ==
    IF ds # <<>> /\ Head(ds) = 48 THEN StripZeros(Tail(ds)) ELSE ds

\* the decimal exponent of the largest double, and the first 17 digits of
\* the least value that rounds beyond it and of the least normal double
DBL_MAX_10_EXP == 308
MaxDigits == <<49, 55, 57, 55, 54, 57, 51, 49, 51, 52, 56, 54, 50, 51, 49, 53, 56>>
MinDigits == <<50, 50, 50, 53, 48, 55, 51, 56, 53, 56, 53, 48, 55, 50, 48, 49, 52>>

RECURSIVE DigitsBelow(_, _)
\* 0.ds < 0.es for the digit sequences ds and es
DigitsBelow(ds, es) ==
    IF es = <<>> THEN FALSE
    ELSE IF ds = <<>> THEN StripZeros(es) # <<>>
    ELSE IF Head(ds) # Head(es) THEN Head(ds) < Head(es)
    ELSE DigitsBelow(Tail(ds), Tail(es))

\* std::stod throws std::out_of_range (strtod sets ERANGE) for a text whose
\* value is not zero and lies beyond the largest double or below the least
\* normal one: int and frac are the digits of the integer part and of the
\* fraction, exp the value of the exponent
StodRange(int, frac, exp) ==
    LET sig == StripZeros(int \o frac)
        k == Len(int) - 1 - (Len(int) + Len(frac) - Len(sig)) + exp
    IN /\ sig # <<>>
       /\ \/ k > DBL_MAX_10_EXP
          \/ k = DBL_MAX_10_EXP /\ DigitsBelow(MaxDigits, sig)
          \/ k < 0 - DBL_MAX_10_EXP
          \/ k = 0 - DBL_MAX_10_EXP /\ DigitsBelow(sig, MinDigits)

\* the exception of std::stod leaves ParseNumber as it is
StodFail(ps) == [ps EXCEPT !.err = "out_of_range", !.j = NoImpl]

\* the digits of the number text: p2 is the state after the integer part,
\* p3 after the fraction, p5 after the 'e' and its sign, p6 at the end
Exponent(inp, p3, p5, p6) ==
    IF p6.pos = p3.pos THEN 0
    ELSE IF inp[p3.pos + 2] = 45 THEN 0 - DecVal(SubSeq(inp, p5.pos + 1, p6.pos))
    ELSE DecVal(SubSeq(inp, p5.pos + 1, p6.pos))

Fraction(inp, p2, p3) ==
    IF p3.pos > p2.pos THEN SubSeq(inp, p2.pos + 2, p3.pos) ELSE <<>>

\* std::stod of the text between the positions from and to, and return
\* Json(value); the model holds the integral values, a text with a fraction
\* or an exponent is outside it (oom)
NumberValue(inp, ps, from, to, neg, outside) ==
    [Produced(ps, MakeScalar(ps.h, NumP(IF neg
                                        THEN 0 - DecVal(SubSeq(inp, from, to))
                                        ELSE DecVal(SubSeq(inp, from, to)))))
        EXCEPT !.h.oom = @ \/ outside]

\* std::stod(numberStr) and return Json(value): p6 is the state at the end
\* of the number text
NumberRange(inp, ps, p1, p2, p3, p5, p6) ==
    IF StodRange(SubSeq(inp, p1.pos + 1, p2.pos), Fraction(inp, p2, p3),
                 Exponent(inp, p3, p5, p6))
    THEN StodFail(p6)
    ELSE NumberValue(inp, p6, p1.pos + 1, p2.pos, p1.pos > ps.pos,
                     p6.pos > p2.pos)

\* JsonParser::ParseNumber from the exponent on: p3 is the state after the
\* fraction, p5 the state after the 'e' and its sign
NumberExponent(inp, ps, p1, p2, p3, p5) ==
    IF Current(inp, p3) \in {101, 69}
    THEN IF ~IsDigit(Current(inp, p5)) THEN ParseFail(p5)
         ELSE NumberRange(inp, ps, p1, p2, p3, p5, SkipDigits(inp, p5))
    ELSE NumberRange(inp, ps, p1, p2, p3, p5, p3)

\* the 'e' or 'E' and the sign after it, when they are there
SkipExponentSign(inp, p3) ==
    IF Current(inp, p3) \in {101, 69}
    THEN IF Current(inp, Advance(inp, p3)) \in {43, 45}
         THEN Advance(inp, Advance(inp, p3)) ELSE Advance(inp, p3)
    ELSE p3

\* JsonParser::ParseNumber from the fraction on: p2 is the state after the
\* integer part
NumberFraction(inp, ps, p1, p2, p3) ==
    IF Current(inp, p2) = 46 /\ ~IsDigit(Current(inp, Advance(inp, p2)))
    THEN ParseFail(Advance(inp, p2))
    ELSE NumberExponent(inp, ps, p1, p2, p3, SkipExponentSign(inp, p3))

\* JsonParser::ParseNumber from the integer part on: p1 is the state after
\* the sign
NumberInteger(inp, ps, p1, p2) ==
    IF ~IsDigit(Current(inp, p1)) THEN ParseFail(p1)
    ELSE NumberFraction(inp, ps, p1, p2,
                        IF Current(inp, p2) = 46
                        THEN SkipDigits(inp, Advance(inp, p2)) ELSE p2)

\* the state after the sign
NumberSign(inp, ps, p1) ==
    NumberInteger(inp, ps, p1,
                  IF Current(inp, p1) = 48 THEN Advance(inp, p1)
                  ELSE SkipDigits(inp, p1))

\* JsonParser::ParseNumber
ParseNumber(inp, ps) ==
    NumberSign(inp, ps, IF Current(inp, ps) = 45 THEN Advance(inp, ps) ELSE ps)

(***************************************************************************)
(* Public operations on the Json that owns Impl j (NoImpl: moved-from).    *)
(***************************************************************************)
TagOf(h, j) == h.value_[h.data_[j]].tag

\* the vector<Json> of the record of Impl j
ArrayOf(h, j) == h.value_[h.data_[j]].arr

\* the entry list of the record of Impl j
ObjectOf(h, j) == h.value_[h.data_[j]].obj

\* PushBack that puts the new element first
ImplPushBackFront(h, j, a) ==
    IF TagOf(h, j) # "Array" THEN Raise(DestroyJson(h, a), "Exception")
    ELSE Ok(WriteValue(h, j, ArrP(<<a>> \o ArrayOf(h, j))), RNone)

\* Impl::PushBack after GetArray() made the record unique in heap h
ImplPushBack(h, j, a) ==
    IF TagOf(h, j) # "Array" THEN Raise(DestroyJson(h, a), "Exception")
    ELSE Ok(WriteValue(h, j, ArrP(Append(ArrayOf(h, j), a))), RNone)

\* Json::PushBack(Json value) -> Impl::PushBack ; a is the Impl of the
\* argument, destroyed with the parameter when the call raises
JsonPushBack(h, j, a) ==
    IF j = NoImpl THEN Raise(DestroyJson(h, a), "Exception")
    ELSE ImplPushBack(EnsureUnique(h, j), j, a)

\* Impl::PopBack after GetArray() made the record unique in heap h
ImplPopBack(h, j) ==
    IF TagOf(h, j) # "Array" \/ ArrayOf(h, j) = <<>> THEN Raise(h, "Exception")
    ELSE Ok(WriteValue(h, j, ArrP(SubSeq(ArrayOf(h, j), 1, Len(ArrayOf(h, j)) - 1))),
            RNone)

\* Json::PopBack -> Impl::PopBack
JsonPopBack(h, j) ==
    IF j = NoImpl THEN Raise(h, "Exception")
    ELSE ImplPopBack(EnsureUnique(h, j), j)

\* Remove that erases the first entry of the map, whatever its key
ImplRemoveFirst(h, j, k) ==
    IF TagOf(h, j) # "Object" THEN Raise(h, "Exception")
    ELSE IF ObjectOf(h, j) = <<>> THEN Ok(h, RNone)
    ELSE Ok(WriteValue(h, j, ObjP(Tail(ObjectOf(h, j)), h.value_[h.data_[j]].bk)),
            RNone)

\* Impl::Remove after GetObject() made the record unique in heap h
ImplRemove(h, j, k) ==
    IF TagOf(h, j) # "Object" THEN Raise(h, "Exception")
    ELSE IF KeyPos(ObjectOf(h, j), k) = 0 THEN Ok(h, RNone)
    ELSE Ok(WriteValue(h, j,
              ObjP(SelectSeq(ObjectOf(h, j), LAMBDA e : e.key # k),
                   h.value_[h.data_[j]].bk)),
            RNone)

\* Json::Remove -> Impl::Remove
JsonRemove(h, j, k) ==
    IF j = NoImpl THEN Raise(h, "Exception")
    ELSE ImplRemove(EnsureUnique(h, j), j, k)

RECURSIVE Reverse(_)
Reverse(s) == IF s = <<>> THEN <<>> ELSE Append(Reverse(Tail(s)), Head(s))

\* SmartObject::smart_reserve : the element count passed to reserve()
SmartReserve(capacity) ==
    IF capacity <= SMALL_OBJECT_THRESHOLD THEN SMALL_OBJECT_THRESHOLD
    ELSE IF capacity <= MEDIUM_OBJECT_THRESHOLD THEN MEDIUM_OBJECT_THRESHOLD
    ELSE capacity + capacity \div 4

\* std::unordered_map::reserve : a different bucket count rehashes, and the
\* rehash relinks every node in front of those already moved, which reverses
\* a list of at most two entries
Rehash(p, n) == IF n = p.bk THEN p ELSE ObjP(Reverse(p.obj), n)

\* Impl::ReserveArray / Impl::ReserveObject after GetArray() / GetObject()
\* made the record unique in heap h ; the capacity of the vector is not part
\* of the model
ImplReserve(h, j, capacity) ==
    LET p == h.value_[h.data_[j]]
        np == Rehash(p, SmartReserve(capacity))
    IN Ok(IF p.tag = "Array" \/ np = p THEN h ELSE WriteValue(h, j, np), RNone)

\* Json::Reserve -> Impl::ReserveArray / Impl::ReserveObject
JsonReserve(h, j, capacity) ==
    IF j # NoImpl /\ TagOf(h, j) \in {"Array", "Object"}
    THEN ImplReserve(EnsureUnique(h, j), j, capacity)
    ELSE Ok(h, RNone)

\* Json::Set<T>
JsonSet(h, j, p) ==
    IF j = NoImpl THEN Raise(h, "Exception") ELSE Ok(SetValue(h, j, p), RNone)

RECURSIVE ParseValue(_, _)
RECURSIVE ParseArrayLoop(_, _, _)
RECURSIVE ParseObjectLoop(_, _, _)

\* the parser state ps with its heap replaced
WithHeap(ps, h) == [ps EXCEPT !.h = h]

\* the local container is destroyed when an error unwinds
Unwind(ps, j) == [ps EXCEPT !.h = DestroyJson(ps.h, j)]

\* array.PushBack(std::move(value)) with the value v just parsed
PushParsed(v, arr) == WithHeap(v, JsonPushBack(v.h, arr, v.j).h)

\* the end of an iteration of the loop of ParseArray: ']' or ','
ArrayNext(inp, p1, arr) ==
    IF Current(inp, p1) = 93 THEN [Advance(inp, p1) EXCEPT !.j = arr]
    ELSE IF Current(inp, p1) = 44
    THEN ParseArrayLoop(inp, SkipWhitespace(inp, Advance(inp, p1)), arr)
    ELSE Unwind(ParseFail(p1), arr)

\* the element v of the iteration
ArrayElement(inp, v, arr) ==
    IF v.err # "none" THEN Unwind(v, arr)
    ELSE ArrayNext(inp, SkipWhitespace(inp, PushParsed(v, arr)), arr)

\* the while loop of JsonParser::ParseArray ; arr is the Impl of the local
\* array
ParseArrayLoop(inp, ps, arr) == ArrayElement(inp, ParseValue(inp, ps), arr)

\* JsonParser::ParseArray after '[' : the empty array, or the loop
ArrayFirst(inp, p1, arr) ==
    IF Current(inp, p1) = 93 THEN [Advance(inp, p1) EXCEPT !.j = arr]
    ELSE ParseArrayLoop(inp, p1, arr)

\* Json array = Json::Array(); SkipWhitespace();
ArrayOpen(inp, ps, m) == ArrayFirst(inp, SkipWhitespace(inp, WithHeap(ps, m.h)), m.i)

\* JsonParser::ParseArray
ParseArray(inp, ps) ==
    ArrayOpen(inp, Advance(inp, ps), MakeContainer(ps.h, ArrP(<<>>)))

\* a member that leaves the entry of a key already present as it is
StoreMemberFirst(h, obj, key, j) ==
    IF KeyPos(ObjectOf(h, obj), h.value_[h.data_[key]].s) # 0
    THEN DestroyJson(h, j)
    ELSE MoveInto(NavMut(h, VarLoc(""), obj,
                         <<Step("key", 0, h.value_[h.data_[key]].s)>>), j)

\* object[key] = std::move(value) : std::string(key.Get<std::string>()) is
\* the key, j the Impl of the value
StoreMember(h, obj, key, j) ==
    MoveInto(NavMut(h, VarLoc(""), obj,
                    <<Step("key", 0, h.value_[h.data_[key]].s)>>), j)

\* the end of an iteration of the loop of ParseObject: '}' or ',' ; the local
\* key of the iteration is destroyed
ObjectNext(inp, p3, key, obj) ==
    IF Current(inp, p3) = 125
    THEN [Advance(inp, Unwind(p3, key)) EXCEPT !.j = obj]
    ELSE IF Current(inp, p3) = 44
    THEN ParseObjectLoop(inp, Advance(inp, Unwind(p3, key)), obj)
    ELSE Unwind(Unwind(ParseFail(p3), key), obj)

\* the value v of the member
ObjectValue(inp, v, key, obj) ==
    IF v.err # "none" THEN Unwind(Unwind(v, key), obj)
    ELSE ObjectNext(inp,
                    SkipWhitespace(inp, WithHeap(v, StoreMember(v.h, obj, key, v.j))),
                    key, obj)

\* the ':' after the key; p2.j is the Impl of the key
ObjectColon(inp, p2, obj) ==
    IF Current(inp, p2) # 58 THEN Unwind(Unwind(ParseFail(p2), p2.j), obj)
    ELSE ObjectValue(inp, ParseValue(inp, Advance(inp, p2)), p2.j, obj)

\* the key k of the member
ObjectKey(inp, k, obj) ==
    IF k.err # "none" THEN Unwind(k, obj)
    ELSE ObjectColon(inp, SkipWhitespace(inp, k), obj)

\* the start of an iteration: the key is a string
ObjectMember(inp, p1, obj) ==
    IF Current(inp, p1) # 34 THEN Unwind(ParseFail(p1), obj)
    ELSE ObjectKey(inp, ParseString(inp, p1), obj)

\* the while loop of JsonParser::ParseObject ; obj is the Impl of the local
\* object
ParseObjectLoop(inp, ps, obj) == ObjectMember(inp, SkipWhitespace(inp, ps), obj)

\* JsonParser::ParseObject after '{' : the empty object, or the loop
ObjectFirst(inp, p1, obj) ==
    IF Current(inp, p1) = 125 THEN [Advance(inp, p1) EXCEPT !.j = obj]
    ELSE ParseObjectLoop(inp, p1, obj)

\* Json object = Json::Object(); SkipWhitespace();
ObjectOpen(inp, ps, m) == ObjectFirst(inp, SkipWhitespace(inp, WithHeap(ps, m.h)), m.i)

\* JsonParser::ParseObject
ParseObject(inp, ps) ==
    ObjectOpen(inp, Advance(inp, ps), MakeContainer(ps.h, EmptyObject))

\* the switch of JsonParser::ParseValue on Current()
ParseByChar(inp, ps) ==
    IF ps.pos >= Len(inp) THEN ParseFail(ps)
    ELSE IF Current(inp, ps) \in {110, 116, 102} THEN ParseKeyword(inp, ps)
    ELSE IF Current(inp, ps) = 34 THEN ParseString(inp, ps)
    ELSE IF Current(inp, ps) = 91 THEN ParseArray(inp, ps)
    ELSE IF Current(inp, ps) = 123 THEN ParseObject(inp, ps)
    ELSE IF Current(inp, ps) = 45 \/ IsDigit(Current(inp, ps))
    THEN ParseNumber(inp, ps)
    ELSE ParseFail(ps)

\* JsonParser::ParseValue
ParseValue(inp, ps0) == ParseByChar(inp, SkipWhitespace(inp, ps0))

\* SkipWhitespace() after the value, which an error does not reach
SkipTrailing(inp, v) == IF v.err # "none" THEN v ELSE SkipWhitespace(inp, v)

\* an end of Parse that does not look at what follows the value
ParseEndLenient(inp, p1) == p1

\* the end of JsonParser::Parse: nothing but whitespace may follow the value
ParseEnd(inp, p1) ==
    IF p1.err # "none" THEN p1
    ELSE IF p1.pos < Len(inp) THEN Unwind(ParseFail(p1), p1.j)
    ELSE p1

\* the value of the text
ParseTop(inp, p0) ==
    IF p0.pos >= Len(inp) THEN ParseFail(p0)
    ELSE ParseEnd(inp, SkipTrailing(inp, ParseValue(inp, p0)))

\* Json::Parse -> JsonParser::Parse : result is the parser state at the end
JsonParse(h, inp) ==
    ParseTop(inp, SkipWhitespace(inp, [h |-> h, pos |-> 0, line |-> 1, col |-> 1,
                                       err |-> "none", j |-> NoImpl]))

(***************************************************************************)
(* Read operations.                                                        *)
(***************************************************************************)
\* Json::GetType
JsonGetType(h, j) == IF j = NoImpl THEN "Null" ELSE TagOf(h, j)

\* Json::IsNull, IsBoolean, IsNumber, IsString, IsArray, IsObject
JsonIs(h, j, t) == IF j = NoImpl THEN FALSE ELSE TagOf(h, j) = t

GetTypes == {"bool", "int", "string"}
TagFor(T) == IF T = "bool" THEN "Boolean" ELSE IF T = "int" THEN "Number" ELSE "String"

\* Json::Get<T>
JsonGet(h, j, T) ==
    IF j = NoImpl THEN Raise(h, "Exception")
    ELSE IF ~JsonIs(h, j, TagFor(T)) THEN Raise(h, "TypeError")
    ELSE LET p == h.value_[h.data_[j]]
         IN Ok(h, IF T = "bool" THEN RBool(p.b)
                  ELSE IF T = "int" THEN RNum(p.n) ELSE RStr(p.s))

\* TryGet that hands on whatever Get does
JsonTryGetUnguarded(h, j, T) == JsonGet(h, j, T)

\* Json::TryGet<T>
JsonTryGet(h, j, T) ==
    IF j = NoImpl THEN Ok(h, RNullopt)
    ELSE LET g == JsonGet(h, j, T)
         IN IF g.err \in {"TypeError", "Exception"} THEN Ok(h, RNullopt) ELSE g

\* Json::Size -> Impl::Size
JsonSize(h, j) ==
    IF j = NoImpl THEN Raise(h, "Exception")
    ELSE IF ~JsonIs(h, j, "Array") /\ ~JsonIs(h, j, "Object")
    THEN Raise(h, "Exception")
    ELSE LET p == h.value_[h.data_[j]]
         IN Ok(h, RNum(IF p.tag = "Array" THEN Len(p.arr) ELSE Len(p.obj)))

\* Contains with the answer of Impl::Contains for a Json that is no object
JsonContainsLenient(h, j, k) ==
    IF j = NoImpl THEN Raise(h, "Exception")
    ELSE IF ~JsonIs(h, j, "Object") THEN Ok(h, RBool(FALSE))
    ELSE Ok(h, RBool(KeyPos(h.value_[h.data_[j]].obj, k) # 0))

\* Json::Contains -> Impl::Contains
JsonContains(h, j, k) ==
    IF j = NoImpl THEN Raise(h, "Exception")
    ELSE IF ~JsonIs(h, j, "Object") THEN Raise(h, "Exception")
    ELSE Ok(h, RBool(KeyPos(h.value_[h.data_[j]].obj, k) # 0))

\* Json::Keys -> Impl::Keys
JsonKeys(h, j) ==
    IF j = NoImpl THEN Raise(h, "Exception")
    ELSE LET p == h.value_[h.data_[j]]
         IN IF p.tag # "Object" THEN Raise(h, "Exception")
            ELSE Ok(h, RKeys(EntryKeys(p.obj)))

\* the result of Json::ToString from the result t of the Printer
Text(h, t) == IF t.err # "none" THEN Raise(h, t.err) ELSE Ok(h, RStr(t.text))

\* Json::ToString
JsonToString(h, j, pretty) ==
    IF j = NoImpl THEN Raise(h, "Exception")
    ELSE Text(h, ImplToString(h, j, pretty))

RECURSIVE DeepVal(_, _, _)
\* the content seen from Impl i through the const read operations, to the
\* depth given: type, scalar value and the elements in iteration order
DeepVal(h, i, depth) ==
    IF i = NoImpl THEN [tag |-> "Moved"]
    ELSE LET p == h.value_[h.data_[i]]
         IN IF depth = 0 THEN [tag |-> p.tag]
            ELSE [tag |-> p.tag, b |-> p.b, n |-> p.n, s |-> p.s,
                  kids |-> IF p.tag = "Array"
                           THEN [k \in 1..Len(p.arr) |->
                                   [key |-> <<>>,
                                    val |-> DeepVal(h, p.arr[k], depth - 1)]]
                           ELSE [k \in 1..Len(p.obj) |->
                                   [key |-> p.obj[k].key,
                                    val |-> DeepVal(h, p.obj[k].val, depth - 1)]]]

\* the six type predicates and GetType in one answer: kind is the result of
\* GetType, keys the tags whose Is* predicate answers true
JsonTypeQuery(h, j) ==
    Ok(h, Ret(JsonGetType(h, j), FALSE, 0, <<>>,
              SelectSeq(<<"Null", "Boolean", "Number", "String", "Array", "Object">>,
                        LAMBDA t : JsonIs(h, j, t)), <<>>))

RECURSIVE IterateFrom(_, _, _, _, _, _)

\* *it at index k: Impl::At(k) on the record of Impl j in heap h
Dereference(h, j, cst, k, n, acc) ==
    IF TagOf(h, j) # "Array" \/ k >= Len(ArrayOf(h, j)) THEN Raise(h, "Exception")
    ELSE IterateFrom(h, j, cst, k + 1, n,
                     Append(acc, DeepVal(h, ArrayOf(h, j)[k + 1], 2)))

\* the loop for (it = begin(); it != end(); ++it) *it, from index k to the
\* index n held by end(): Iterator::operator* is the non-const Impl::At,
\* ConstIterator::operator* the const one; the result lists the elements
IterateFrom(h, j, cst, k, n, acc) ==
    IF k >= n THEN Ok(h, RElems(acc))
    ELSE Dereference(IF cst THEN h ELSE EnsureUnique(h, j), j, cst, k, n, acc)

\* Iterator / ConstIterator: the Impl iterated and an index
IteratorAt(j, index) == [impl |-> j, index |-> index]

\* Json::begin, const and non-const, and cbegin: every branch answers index 0
JsonBegin(h, j) == IteratorAt(j, 0)

\* Json::end, const and non-const, and cend
JsonEnd(h, j) ==
    IF j = NoImpl THEN IteratorAt(NoImpl, 0)
    ELSE IF ~JsonIs(h, j, "Array") /\ ~JsonIs(h, j, "Object") THEN IteratorAt(j, 0)
    ELSE IteratorAt(j, JsonSize(h, j).ret.n)

\* for (auto& item : json): the traversal from begin() to end()
JsonIterate(h, j, cst) ==
    IF JsonBegin(h, j) = JsonEnd(h, j) THEN Ok(h, RElems(<<>>))
    ELSE IterateFrom(h, j, cst, JsonBegin(h, j).index, JsonEnd(h, j).index, <<>>)

\* an ObjectIterator / ConstObjectIterator built on the Impl a.i of its
\* dummy_json_: it is the position of the map iterator, 0 for the iterator a
\* default ObjectIterImpl holds, the size plus one for the end of the map
ObjIter(a, it) == [h |-> a.h, err |-> "none", it |-> it, dummy |-> a.i]

\* the exception GetObject throws leaves a noexcept function: std::terminate
Terminated(h) == [h |-> h, err |-> "terminate", it |-> 0, dummy |-> NoImpl]

\* ObjectIterator::ObjectIterator() and the const form
DefaultObjectIterator(h) == ObjIter(AcquireImpl(h), 0)

\* ObjectIterator(Impl*) and ObjectIterator(Impl*, bool end), from the heap h
\* GetObject left when Impl j holds an object
ObjectIteratorOn(h, j, end) ==
    IF TagOf(h, j) # "Object" THEN Terminated(h)
    ELSE ObjIter(AcquireImpl(h),
                 IF end \/ ObjectOf(h, j) = <<>> THEN Len(ObjectOf(h, j)) + 1 ELSE 1)

\* Json::object_begin, object_end and their const forms (object_cbegin,
\* object_cend): the non-const GetObject runs EnsureUnique first
JsonObjectIterator(h, j, cst, end) ==
    IF j = NoImpl THEN DefaultObjectIterator(h)
    ELSE ObjectIteratorOn(IF cst THEN h ELSE EnsureUnique(h, j), j, end)

\* ObjectRange::begin / end and ConstObjectRange::begin / end
ObjectRangeIterator(h, j, cst, end) ==
    IF ~JsonIs(h, j, "Object") THEN DefaultObjectIterator(h)
    ELSE JsonObjectIterator(h, j, cst, end)

\* the keys the loop visits from iterator b up to iterator e; b in the
\* result says whether begin == end; both iterators are destroyed after the
\* loop, e first
ObjectLoopBody(j, b, e) ==
    IF e.err # "none" THEN Raise(e.h, e.err)
    ELSE Ok(DestroyJson(DestroyJson(e.h, e.dummy), b.dummy),
            Ret("keys", b.it = e.it, 0, <<>>,
                IF b.it = 0 THEN <<>>
                ELSE [k \in 1..(e.it - b.it) |-> ObjectOf(e.h, j)[b.it + k - 1].key],
                <<>>))

ObjectLoopFrom(j, cst, range, b) ==
    IF b.err # "none" THEN Raise(b.h, b.err)
    ELSE ObjectLoopBody(j, b, IF range THEN ObjectRangeIterator(b.h, j, cst, TRUE)
                                       ELSE JsonObjectIterator(b.h, j, cst, TRUE))

\* for (auto& item : json.ObjectItems()) when range is true, and
\* for (it = json.object_begin(); it != json.object_end(); ++it) otherwise
JsonObjectLoop(h, j, cst, range) ==
    ObjectLoopFrom(j, cst, range, IF range THEN ObjectRangeIterator(h, j, cst, FALSE)
                                           ELSE JsonObjectIterator(h, j, cst, FALSE))

(***************************************************************************)
(* The program: the named Jsons v and c, a reference ref, and the public   *)
(* operations applied to them, directly or through a chain of operator[]   *)
(* calls.                                                                  *)
(***************************************************************************)
Capacities == {5, 20}

RECURSIVE NavPaths(_, _, _)
\* the operator[] chains tried on the Json that owns Impl j: the elements
\* present, to depth d, one index past the end of each array, every key of
\* KeySet on each object, and an index on a value that is not a container
NavPaths(h, j, d) ==
    {<<>>} \cup
    IF d = 0 \/ j = NoImpl THEN {}
    ELSE LET p == h.value_[h.data_[j]]
         IN IF p.tag = "Array"
            THEN {<<Step("idx", Len(p.arr), <<>>)>>} \cup
                 UNION {{<<Step("idx", k - 1, <<>>)>> \o q :
                           q \in NavPaths(h, p.arr[k], d - 1)} : k \in 1..Len(p.arr)}
            ELSE IF p.tag = "Object"
            THEN UNION {IF KeyPos(p.obj, k) = 0 THEN {<<Step("key", 0, k)>>}
                        ELSE {<<Step("key", 0, k)>> \o q :
                                q \in NavPaths(h, p.obj[KeyPos(p.obj, k)].val, d - 1)} :
                        k \in KeySet}
            ELSE {<<Step("idx", 0, <<>>)>>}

PathsOf(x) == NavPaths(Heap, vars[x], MaxDepth)

NoLast ==
    [op |-> "init", var |-> "", path |-> <<>>, cst |-> FALSE, arg |-> "",
     err |-> "none", ret |-> RNone, log |-> <<>>]

EmptyHeap ==
    [data_ |-> [i \in ImplId |-> NoRec], value_ |-> [r \in RecId |-> FreeP],
     pool |-> <<>>, warm |-> 0, warmed |-> FALSE,
     vars |-> [x \in VarNames |-> NoImpl], log |-> <<>>, oom |-> FALSE,
     max_pool_size |-> MAX_POOL_SIZE, warmup_size |-> WARMUP_SIZE]

\* the heap of the build in which MAX_POOL_SIZE and WARMUP_SIZE are 0:
\* AcquireImpl always allocates an Impl and ReleaseImpl always deletes it
UnpooledHeap == [EmptyHeap EXCEPT !.max_pool_size = 0, !.warmup_size = 0]

\* a run is the heap h, the Json& the program holds, and the outcome of the
\* last operation; NoRun stands for the run the program does not make
NoRun == [h |-> UnpooledHeap, ref |-> VarLoc(""), err |-> "none", ret |-> RNone]

\* the heap after the declaration of x, a Json that owns Impl j
Declared(h, x, j) == SetSlot(h, VarLoc(x), j)

\* the heap after  Json x = Json::Parse(text);
ParsedInto(ps, x) == Declared(ps.h, x, ps.j)
AfterParse(h, x, text) == ParsedInto(JsonParse(h, text), x)

\* the heap after  Json x = y;
ConstructedInto(c, x) == Declared(c.h, x, c.i)
AfterCopy(h, x, y) == ConstructedInto(CopyJson(h, h.vars[y]), x)

\* the heap after  Json x = std::move(y);
AfterMove(h, x, y) == SetSlot(SetSlot(h, VarLoc(x), h.vars[y]), VarLoc(y), NoImpl)

Install(h) ==
    /\ ~h.oom
    /\ data_ = h.data_
    /\ value_ = h.value_
    /\ object_pool_ = h.pool
    /\ warm = h.warm
    /\ warmed = h.warmed
    /\ vars = h.vars

Commit(h) ==
    /\ ~h.oom
    /\ data_' = h.data_
    /\ value_' = h.value_
    /\ object_pool_' = h.pool
    /\ warm' = h.warm
    /\ warmed' = h.warmed
    /\ vars' = h.vars

Done(op, x, path, cst, arg, r) ==
    /\ Commit(r.h)
    /\ last' = [op |-> op, var |-> x, path |-> path, cst |-> cst, arg |-> arg,
                err |-> r.err, ret |-> r.ret, log |-> r.h.log]

Tick(max) == ops < max /\ ops' = ops + 1

\* the threads besides the main thread, which the sequential programs do not
\* start
Threads == {"t1", "t2"}

\* a thread that is not inside an operation; c is the Impl of its own Json,
\* pool, warm and warmed its thread_local object_pool_ and pool_index_
IdleThread ==
    [pc |-> "idle", op |-> "", on |-> "", key |-> <<>>, reg |-> 0,
     err |-> "none", ret |-> RNone, c |-> NoImpl,
     pool |-> <<>>, warm |-> 0, warmed |-> FALSE]

NoThreads == [t \in Threads |-> IdleThread]
NoCounts == [r \in RecId |-> 0]

\* a step of a program that runs in the main thread alone; the counters of
\* the objects, which no operation of the library reads, stay out of it
SeqTick(max) == Tick(max) /\ UNCHANGED <<access_count_, threads, unpooled>>

\* Json x = y;  (Json::Json(const Json&))
CopyConstruct(x, y) ==
    /\ x \notin scope /\ y \in scope /\ vars[y] # NoImpl
    /\ Done("CopyConstruct", x, <<>>, FALSE, y, Ok(AfterCopy(Heap, x, y), RNone))
    /\ scope' = scope \cup {x}

\* x goes out of scope: Json::~Json hands the Impl of x to ReleaseImpl
EndScope(x) ==
    /\ x \in scope
    /\ Done("EndScope", x, <<>>, FALSE, "",
            Ok(SetSlot(DestroyJson(Heap, vars[x]), VarLoc(x), NoImpl), RNone))
    /\ scope' = scope \ {x}

\* Json x = std::move(y);  (Json::Json(Json&&) = default)
MoveConstruct(x, y) ==
    /\ x \notin scope /\ y \in scope
    /\ Done("MoveConstruct", x, <<>>, FALSE, y, Ok(AfterMove(Heap, x, y), RNone))
    /\ scope' = scope \cup {x}

\* x[path] = <literal>;  the temporary is built first, then the path is
\* evaluated, then Json::operator=(Json&&) runs
AssignLit(x, path, lit) ==
    /\ x \in scope
    /\ \E m \in {MakeLiteral(Heap, lit)} :
       \E nav \in {NavMut(m.h, VarLoc(x), vars[x], path)} :
          Done("Assign", x, path, FALSE, lit.tag,
               IF nav.err # "none" THEN Raise(DestroyJson(nav.h, m.i), nav.err)
               ELSE Ok(MoveInto(nav, m.i), RNone))
    /\ UNCHANGED scope

\* x[path] = y;  (Json::operator=(const Json&) -> Impl::operator=)
CopyAssign(x, path, y) ==
    /\ x \in scope /\ y \in scope /\ vars[y] # NoImpl
    /\ \E nav \in {NavMut(Heap, VarLoc(x), vars[x], path)} :
          /\ nav.err = "none" => nav.j # NoImpl
          /\ Done("CopyAssign", x, path, FALSE, y,
                  IF nav.err # "none" THEN Raise(nav.h, nav.err)
                  ELSE IF nav.j = vars[y] THEN Ok(nav.h, RNone)
                  ELSE Ok(AssignData(nav.h, nav.j, nav.h.data_[vars[y]]), RNone))
    /\ UNCHANGED scope

\* x[path].Set(<scalar>);
SetOp(x, path, p) ==
    /\ x \in scope
    /\ \E nav \in {NavMut(Heap, VarLoc(x), vars[x], path)} :
          Done("Set", x, path, FALSE, p.tag,
               IF nav.err # "none" THEN Raise(nav.h, nav.err)
               ELSE JsonSet(nav.h, nav.j, p))
    /\ UNCHANGED scope

\* the model keeps arrays within MaxSize elements
Room(h, j) ==
    j # NoImpl /\ TagOf(h, j) = "Array" => Len(h.value_[h.data_[j]].arr) < MaxSize

\* j.PushBack(a) with the argument a just constructed
PushBackOf(a, j) == JsonPushBack(a.h, j, a.i)

\* x[path].PushBack(<literal>);
PushBackLit(x, path, lit) ==
    /\ x \in scope
    /\ \E nav \in {NavMut(Heap, VarLoc(x), vars[x], path)} :
          /\ nav.err = "none" => Room(nav.h, nav.j)
          /\ Done("PushBack", x, path, FALSE, lit.tag,
                  IF nav.err # "none" THEN Raise(nav.h, nav.err)
                  ELSE PushBackOf(MakeLiteral(nav.h, lit), nav.j))
    /\ UNCHANGED scope

\* x[path].PushBack(y);  the parameter is a copy of y
PushBackVar(x, path, y) ==
    /\ x \in scope /\ y \in scope /\ vars[y] # NoImpl
    /\ \E nav \in {NavMut(Heap, VarLoc(x), vars[x], path)} :
          /\ nav.err = "none" => Room(nav.h, nav.j)
          /\ Done("PushBack", x, path, FALSE, y,
                  IF nav.err # "none" THEN Raise(nav.h, nav.err)
                  ELSE PushBackOf(CopyJson(nav.h, vars[y]), nav.j))
    /\ UNCHANGED scope

\* x.PushBack(std::move(y));  the parameter is move-constructed from y before
\* the body of PushBack runs, and is destroyed when the call raises
PushBackMove(x, y) ==
    /\ x \in scope /\ y \in scope /\ x # y
    /\ vars[x] # NoImpl /\ vars[y] # NoImpl
    /\ Room(Heap, vars[x])
    /\ Done("PushBack", x, <<>>, FALSE, y,
            JsonPushBack(SetSlot(Heap, VarLoc(y), NoImpl), vars[x], vars[y]))
    /\ UNCHANGED scope

\* x[path].PopBack();
PopBack(x, path) ==
    /\ x \in scope
    /\ \E nav \in {NavMut(Heap, VarLoc(x), vars[x], path)} :
          Done("PopBack", x, path, FALSE, "",
               IF nav.err # "none" THEN Raise(nav.h, nav.err)
               ELSE JsonPopBack(nav.h, nav.j))
    /\ UNCHANGED scope

\* x[path].Remove(k);
Remove(x, path, k) ==
    /\ x \in scope
    /\ \E nav \in {NavMut(Heap, VarLoc(x), vars[x], path)} :
          Done("Remove", x, path, FALSE, ToString(k),
               IF nav.err # "none" THEN Raise(nav.h, nav.err)
               ELSE JsonRemove(nav.h, nav.j, k))
    /\ UNCHANGED scope

\* x[path].Reserve(capacity);
Reserve(x, path, capacity) ==
    /\ x \in scope
    /\ \E nav \in {NavMut(Heap, VarLoc(x), vars[x], path)} :
          Done("Reserve", x, path, FALSE, "",
               IF nav.err # "none" THEN Raise(nav.h, nav.err)
               ELSE JsonReserve(nav.h, nav.j, capacity))
    /\ UNCHANGED scope

\* the reference after an operation: the program drops a reference whose
\* record met one of the events evs, since the slot it named may be gone
KeepRef(evs) ==
    ref' = IF \E k \in DOMAIN last'.log :
                last'.log[k].rec = ref.rec /\ last'.log[k].ev \in evs
           THEN VarLoc("") ELSE ref

\* Json& r = x[path];
TakeRef(x, path) ==
    /\ x \in scope /\ path # <<>>
    /\ \E nav \in {NavMut(Heap, VarLoc(x), vars[x], path)} :
          /\ Done("TakeRef", x, path, FALSE, "",
                  IF nav.err # "none" THEN Raise(nav.h, nav.err) ELSE Ok(nav.h, RNone))
          /\ IF nav.err # "none" THEN KeepRef({"write", "free"}) ELSE ref' = nav.loc
    /\ UNCHANGED scope

\* the Impl owned by the Json the reference refers to
RefImpl ==
    LET p == value_[ref.rec]
    IN IF p.tag = "Array" THEN p.arr[ref.pos] ELSE p.obj[ref.pos].val

\* r = <literal>;  the temporary is built first; the programs modelled do not
\* assign through r when building it destroyed the record r points into
RefAssign(lit) ==
    /\ ref.rec # NoRec
    /\ \E m \in {MakeLiteral(Heap, lit)} :
          /\ m.h.value_[ref.rec].tag # "Free"
          /\ Done("Assign", "r", <<>>, FALSE, lit.tag,
                  Ok(MoveAssign(m.h, ref, RefImpl, m.i), RNone))
    /\ KeepRef({"free"})
    /\ UNCHANGED scope

\* r.Set(<scalar>);
RefSet(p) ==
    /\ ref.rec # NoRec
    /\ Done("Set", "r", <<>>, FALSE, p.tag, JsonSet(Heap, RefImpl, p))
    /\ KeepRef({"free"})
    /\ UNCHANGED scope

\* Json x = Json::Parse(text);  x is not constructed when Parse raises
ParseInto(x, text) ==
    /\ x \notin scope
    /\ \E ps \in {JsonParse(Heap, text)} :
          /\ Done("Parse", x, <<>>, FALSE, "",
                  IF ps.err # "none" THEN Raise(ps.h, ps.err)
                  ELSE Ok(ParsedInto(ps, x), RNone))
          /\ scope' = IF ps.err # "none" THEN scope ELSE scope \cup {x}

\* x = Json::Parse(text);  Json::operator=(Json&&) runs when Parse returned
ParseAssign(x, text) ==
    /\ x \in scope
    /\ \E ps \in {JsonParse(Heap, text)} :
          Done("ParseAssign", x, <<>>, FALSE, "",
               IF ps.err # "none" THEN Raise(ps.h, ps.err)
               ELSE Ok(MoveAssign(ps.h, VarLoc(x), vars[x], ps.j), RNone))
    /\ UNCHANGED scope

\* the read operations, named by q
ReadOp(q, T, k, pretty) == [q |-> q, T |-> T, k |-> k, pretty |-> pretty]

ReadAt(h, j, cst, rd) ==
    IF rd.q = "Get" THEN JsonGet(h, j, rd.T)
    ELSE IF rd.q = "TryGet" THEN JsonTryGet(h, j, rd.T)
    ELSE IF rd.q = "Contains" THEN JsonContains(h, j, rd.k)
    ELSE IF rd.q = "ToString" THEN JsonToString(h, j, rd.pretty)
    ELSE IF rd.q = "Size" THEN JsonSize(h, j)
    ELSE IF rd.q = "Keys" THEN JsonKeys(h, j)
    ELSE IF rd.q = "TypeQuery" THEN JsonTypeQuery(h, j)
    ELSE IF rd.q = "Iterate" THEN JsonIterate(h, j, cst)
    ELSE IF rd.q = "ObjectItems" THEN JsonObjectLoop(h, j, cst, TRUE)
    ELSE IF rd.q = "ObjectLoop" THEN JsonObjectLoop(h, j, cst, FALSE)
    ELSE Ok(h, RElems(<<DeepVal(h, j, MaxDepth + 1)>>))

\* a read of x[path] through a const reference to x: const operator[],
\* ConstIterator
ConstRead(x, path, rd) ==
    /\ x \in scope
    /\ \E nav \in {NavConst(Heap, vars[x], path)} :
          Done(rd.q, x, path, TRUE, IF rd.q = "ToString" THEN ToString(rd.pretty) ELSE rd.T,
               IF nav.err # "none" THEN Raise(nav.h, nav.err)
               ELSE ReadAt(nav.h, nav.j, TRUE, rd))
    /\ UNCHANGED scope

\* the same read through x itself: non-const operator[], Iterator
MutRead(x, path, rd) ==
    /\ x \in scope
    /\ \E nav \in {NavMut(Heap, VarLoc(x), vars[x], path)} :
          Done(rd.q, x, path, FALSE, IF rd.q = "ToString" THEN ToString(rd.pretty) ELSE rd.T,
               IF nav.err # "none" THEN Raise(nav.h, nav.err)
               ELSE ReadAt(nav.h, nav.j, FALSE, rd))
    /\ UNCHANGED scope

NoHist == [x \in VarNames |-> <<>>]
NoParsed == [text |-> <<>>, pretty |-> FALSE]

(***************************************************************************)
(* Texts the initial values are parsed from.                               *)
(***************************************************************************)
TxtNum == <<49>>                                           \* 1
TxtArr == <<91, 49, 93>>                                   \* [1]
TxtArrArr == <<91, 91, 49, 93, 93>>                        \* [[1]]
TxtObj == <<123, 34, 97, 34, 58, 49, 125>>                 \* {"a":1}
TxtObjArr == <<123, 34, 97, 34, 58, 91, 49, 93, 125>>      \* {"a":[1]}

(***************************************************************************)
(* SpecCow: v is parsed from a text and c is a copy of it; then up to      *)
(* MaxCowOps operations are applied through v and through c.               *)
(***************************************************************************)
CowTexts == {TxtNum, TxtArrArr, TxtObjArr}

InitCow ==
    /\ \E t \in CowTexts :
         Install(AfterCopy(AfterParse(EmptyHeap, "v", t), "c", "v"))
    /\ scope = {"v", "c"}
    /\ ref = VarLoc("")
    /\ last = NoLast
    /\ ops = 0
    /\ hist = NoHist
    /\ parsed = NoParsed
    /\ access_count_ = NoCounts
    /\ threads = NoThreads
    /\ unpooled = NoRun

\* the type of x[path] as a read finds it, "None" when there is no such
\* element: the programs of SpecCow call the container operations on the
\* containers of the matching type
TargetTag(x, path) ==
    LET nav == NavConst(Heap, vars[x], path)
    IN IF nav.err = "none" /\ nav.j # NoImpl THEN TagOf(Heap, nav.j) ELSE "None"

\* one more operation of the program, which holds no reference
CowStep == SeqTick(MaxCowOps) /\ UNCHANGED <<ref, hist, parsed>>

NextCow ==
    \/ \E x \in VarNames : \E path \in PathsOf(x) :
         CowStep /\ SetOp(x, path, NumP(2))
    \/ \E x \in VarNames : \E path \in PathsOf(x) :
         CowStep /\ AssignLit(x, path, EmptyObject)
    \/ \E x \in VarNames : \E path \in PathsOf(x) :
         CowStep /\ TargetTag(x, path) = "Array" /\ PushBackLit(x, path, NumP(2))
    \/ \E x \in VarNames : \E path \in PathsOf(x) :
         CowStep /\ TargetTag(x, path) = "Array" /\ PopBack(x, path)
    \/ \E x \in VarNames : \E path \in PathsOf(x) :
         CowStep /\ TargetTag(x, path) = "Object" /\ Remove(x, path, <<97>>)
    \/ \E x \in VarNames : \E path \in PathsOf(x) :
         /\ CowStep
         /\ TargetTag(x, path) \in {"Array", "Object"}
         /\ Reserve(x, path, 20)
    \/ \E x \in VarNames, y \in VarNames :
         CowStep /\ CopyAssign(x, <<>>, y)
    \/ \E x \in VarNames : \E path \in PathsOf(x) :
         CowStep /\ MutRead(x, path, ReadOp("At", "", <<>>, FALSE))
    \/ \E x \in VarNames : \E path \in PathsOf(x) :
         CowStep /\ ConstRead(x, path, ReadOp("ToString", "", <<>>, FALSE))

SpecCow == InitCow /\ [][NextCow]_vars_all

WriteOps == {"Set", "Assign", "PushBack", "PopBack", "Remove", "Reserve"}
IsWrite(l) == l.op \in WriteOps /\ l.err = "none"
Cloned(l) == \E k \in DOMAIN l.log : l.log[k].ev = "clone"

\* what the read operations can tell about x: its type, its scalar value, its
\* keys and elements in iteration order, and the same of every element
Observable(x) == DeepVal(Heap, vars[x], MaxDepth + MaxCowOps + 1)

\* C1: an operation applied through one of v and c, the two sharing a record
\* or not, leaves everything the other one shows to its readers as it was.
C1_CopyIndependence ==
    [][\A x \in VarNames : \A y \in VarNames \ {x} :
         last'.var = x => Observable(y)' = Observable(y)]_vars_all

\* a write at a nested path of c has detached c: c shows the new value, v does
\* not
C1_Witness ==
    /\ last.op = "Set" /\ last.var = "c" /\ Len(last.path) = 2
    /\ last.err = "none" /\ Cloned(last)
    /\ Observable("c") # Observable("v")

\* C3: once a write has followed the copy, no later write clones a record
\* again (no new copy is taken in between).
C3_OneClonePerShare ==
    [][(IsWrite(last) /\ IsWrite(last')) => ~Cloned(last')]_vars_all

Counts == [r \in RecId |-> UseCount(Heap, r)]

\* C4: reading is free: an operation that only reads (index or key access to
\* read an element, ToString) clones nothing and leaves every count as it was.
C4_ReadsAreFree ==
    [][last'.op \in {"At", "ToString"} => (~Cloned(last') /\ Counts' = Counts)]_vars_all


(***************************************************************************)
(* SpecRef: v is parsed from a text; the program takes a reference to an   *)
(* element of v, copies v, and writes through the reference and through    *)
(* the two Jsons.                                                          *)
(***************************************************************************)
RefTexts == {TxtArr, TxtObj, TxtArrArr}

InitRef ==
    /\ \E t \in RefTexts : Install(AfterParse(EmptyHeap, "v", t))
    /\ scope = {"v"}
    /\ ref = VarLoc("")
    /\ last = NoLast
    /\ ops = 0
    /\ hist = NoHist
    /\ parsed = NoParsed
    /\ access_count_ = NoCounts
    /\ threads = NoThreads
    /\ unpooled = NoRun

\* one more operation of the program; the reference is dropped when the
\* operation wrote or freed the record it points into
RefStep == SeqTick(MaxRefOps) /\ UNCHANGED <<hist, parsed>>

NextRef ==
    \/ \E path \in PathsOf("v") : RefStep /\ TakeRef("v", path)
    \/ RefStep /\ CopyConstruct("c", "v") /\ KeepRef({"write", "free"})
    \/ RefStep /\ RefAssign(NumP(2))
    \/ RefStep /\ RefSet(NumP(2))
    \/ \E x \in VarNames : \E path \in PathsOf(x) :
         RefStep /\ SetOp(x, path, StrP(<<115>>)) /\ KeepRef({"write", "free"})
    \/ \E x \in VarNames :
         /\ RefStep
         /\ ConstRead(x, <<>>, ReadOp("ToString", "", <<>>, FALSE))
         /\ KeepRef({"write", "free"})

SpecRef == InitRef /\ [][NextRef]_vars_all

\* C2: every in-place write of a record's payload finds the record with a
\* count of exactly 1, and a record is cloned only when its count exceeds 1.
C2_WriteOnlyWhenExclusive ==
    \A k \in DOMAIN last.log :
        /\ last.log[k].ev = "write" => last.log[k].count = 1
        /\ last.log[k].ev = "clone" => last.log[k].count > 1

\* C26: a write through the reference r into v (r = x or r.Set(x)) does not
\* reach the copy c of v: c shows after the write what it showed before, also
\* when r was taken before c was made.
C26_RefWriteStaysOut ==
    [][(last'.var = "r" /\ last'.op \in {"Set", "Assign"} /\ "c" \in scope)
         => Observable("c")' = Observable("c")]_vars_all

(***************************************************************************)
(* SpecMoved: v is parsed from a text; the program moves it into c, which  *)
(* leaves v in the moved-from state, and applies operations to v and to c. *)
(***************************************************************************)
TxtNull == <<110, 117, 108, 108>>                          \* null
TxtTrue == <<116, 114, 117, 101>>                          \* true
TxtStr == <<34, 115, 34>>                                  \* "s"
MovedTexts == {TxtNull, TxtTrue, TxtNum, TxtStr, TxtArr, TxtObj}

InitMoved ==
    /\ \E t \in MovedTexts : Install(AfterParse(EmptyHeap, "v", t))
    /\ scope = {"v"}
    /\ ref = VarLoc("")
    /\ last = NoLast
    /\ ops = 0
    /\ hist = NoHist
    /\ parsed = NoParsed
    /\ access_count_ = NoCounts
    /\ threads = NoThreads
    /\ unpooled = NoRun

ElementPaths == {<<Step("idx", 0, <<>>)>>, <<Step("key", 0, <<97>>)>>}

\* the program is over once std::terminate was called
MovedStep ==
    /\ last.err # "terminate"
    /\ SeqTick(MaxMovedOps)
    /\ UNCHANGED <<ref, hist, parsed>>

NextMoved ==
    \/ \E x \in VarNames : MovedStep /\ MoveConstruct("c", x)
    \/ \E x \in VarNames : \E T \in GetTypes :
         MovedStep /\ MutRead(x, <<>>, ReadOp("Get", T, <<>>, FALSE))
    \/ \E x \in VarNames : \E T \in GetTypes :
         MovedStep /\ MutRead(x, <<>>, ReadOp("TryGet", T, <<>>, FALSE))
    \/ \E x \in VarNames :
         MovedStep /\ MutRead(x, <<>>, ReadOp("TypeQuery", "", <<>>, FALSE))
    \/ \E x \in VarNames :
         MovedStep /\ MutRead(x, <<>>, ReadOp("Size", "", <<>>, FALSE))
    \/ \E x \in VarNames :
         MovedStep /\ MutRead(x, <<>>, ReadOp("Contains", "", <<97>>, FALSE))
    \/ \E x \in VarNames :
         MovedStep /\ MutRead(x, <<>>, ReadOp("Keys", "", <<>>, FALSE))
    \/ \E x \in VarNames : \E pretty \in BOOLEAN :
         MovedStep /\ MutRead(x, <<>>, ReadOp("ToString", "", <<>>, pretty))
    \/ \E x \in VarNames : \E path \in ElementPaths :
         MovedStep /\ MutRead(x, path, ReadOp("At", "", <<>>, FALSE))
    \/ \E x \in VarNames : \E path \in ElementPaths :
         MovedStep /\ ConstRead(x, path, ReadOp("At", "", <<>>, FALSE))
    \/ \E x \in VarNames :
         MovedStep /\ MutRead(x, <<>>, ReadOp("Iterate", "", <<>>, FALSE))
    \/ \E x \in VarNames :
         MovedStep /\ ConstRead(x, <<>>, ReadOp("Iterate", "", <<>>, FALSE))
    \/ \E x \in VarNames :
         MovedStep /\ MutRead(x, <<>>, ReadOp("ObjectItems", "", <<>>, FALSE))
    \/ \E x \in VarNames :
         MovedStep /\ ConstRead(x, <<>>, ReadOp("ObjectItems", "", <<>>, FALSE))
    \/ \E x \in VarNames :
         MovedStep /\ MutRead(x, <<>>, ReadOp("ObjectLoop", "", <<>>, FALSE))
    \/ \E x \in VarNames :
         MovedStep /\ ConstRead(x, <<>>, ReadOp("ObjectLoop", "", <<>>, FALSE))
    \/ \E x \in VarNames : MovedStep /\ SetOp(x, <<>>, NumP(2))
    \/ \E x \in VarNames : MovedStep /\ AssignLit(x, <<>>, NumP(2))
    \/ \E x \in VarNames : MovedStep /\ ParseAssign(x, TxtArr)
    \/ \E x \in VarNames : MovedStep /\ PushBackLit(x, <<>>, NumP(2))
    \/ \E x \in VarNames : MovedStep /\ PopBack(x, <<>>)
    \/ \E x \in VarNames : MovedStep /\ Remove(x, <<>>, <<97>>)
    \/ \E x \in VarNames : \E capacity \in Capacities :
         MovedStep /\ Reserve(x, <<>>, capacity)

SpecMoved == InitMoved /\ [][NextMoved]_vars_all

ContentOps ==
    {"Get", "Set", "At", "PushBack", "PopBack", "Reserve", "Size", "Contains",
     "Remove", "Keys", "ToString"}

\* C5: on a moved-from Json the type predicates all answer false and GetType
\* answers Null without failing, and every operation on the content (Get,
\* Set, index and key access, PushBack, PopBack, Reserve, Size, Contains,
\* Remove, Keys, ToString) raises the generic exception.
C5_MovedFromFails ==
    [][vars[last'.var] = NoImpl =>
         /\ last'.op = "TypeQuery" =>
              /\ last'.err = "none"
              /\ last'.ret.kind = "Null"
              /\ last'.ret.keys = <<>>
         /\ last'.op \in ContentOps => last'.err = "Exception"]_vars_all

\* C9: TryGet<T> never raises; it returns what Get<T> returns when Get<T>
\* succeeds, and the empty result exactly when Get<T> would raise the type
\* error or the Json is moved-from.
C9_TryGet ==
    [][last'.op = "TryGet" =>
         LET j == vars[last'.var]
             g == JsonGet(Heap, j, last'.arg)
         IN /\ last'.err = "none"
            /\ g.err = "none" => last'.ret = g.ret
            /\ last'.ret = RNullopt <=> (j = NoImpl \/ g.err = "TypeError")]_vars_all

\* TryGet on the moved-from Json answered with the empty result
C9_Witness ==
    /\ last.op = "TryGet" /\ vars[last.var] = NoImpl
    /\ last.err = "none" /\ last.ret = RNullopt

\* C23: the moved-from state is terminal: no operation on a Json that is
\* moved-from, being the target of an assignment included, gives it content
\* again; it stays moved-from as long as it lives.
C23_MovedFromIsTerminal ==
    [][\A x \in scope : vars[x] = NoImpl => vars'[x] = NoImpl]_vars_all

\* C17: for a Json that is not an array (Null, Boolean, Number, String,
\* Object, moved-from) begin() equals end(), for the const and the non-const
\* form, and the range-based loop over it visits no element and raises
\* nothing.
C17_NonArrayRangeEmpty ==
    [][(last'.op = "Iterate" /\ ~JsonIs(Heap, vars[last'.var], "Array")) =>
         /\ JsonBegin(Heap, vars[last'.var]) = JsonEnd(Heap, vars[last'.var])
         /\ last'.err = "none"
         /\ last'.ret = RElems(<<>>)]_vars_all

\* C18: for a Json that is not an object (Null, Boolean, Number, String,
\* Array, moved-from) ObjectItems().begin() equals ObjectItems().end() and
\* object_begin() equals object_end(), in the const and the non-const form;
\* obtaining the iterators neither raises nor ends the program, and the loop
\* visits no key.
C18_NonObjectRangeEmpty ==
    [][(last'.op \in {"ObjectItems", "ObjectLoop"}
         /\ ~JsonIs(Heap, vars[last'.var], "Object")) =>
         /\ last'.err = "none"
         /\ last'.ret.b
         /\ last'.ret.keys = <<>>]_vars_all

(***************************************************************************)
(* SpecCycle: v is parsed from a text and c is a copy of it; the program   *)
(* assigns the Jsons to elements of themselves and of each other and       *)
(* prints them.                                                            *)
(***************************************************************************)
CycleTexts == {TxtArr, TxtObj, TxtObjArr}

InitCycle ==
    /\ \E t \in CycleTexts :
         Install(AfterCopy(AfterParse(EmptyHeap, "v", t), "c", "v"))
    /\ scope = {"v", "c"}
    /\ ref = VarLoc("")
    /\ last = NoLast
    /\ ops = 0
    /\ hist = NoHist
    /\ parsed = NoParsed
    /\ access_count_ = NoCounts
    /\ threads = NoThreads
    /\ unpooled = NoRun

CycleStep == SeqTick(MaxCycleOps) /\ UNCHANGED <<ref, hist, parsed>>

NextCycle ==
    \/ \E x \in VarNames, y \in VarNames : \E path \in PathsOf(x) :
         CycleStep /\ path # <<>> /\ CopyAssign(x, path, y)
    \/ \E x \in VarNames, y \in VarNames :
         CycleStep /\ PushBackVar(x, <<>>, y)
    \/ \E x \in VarNames : \E pretty \in BOOLEAN :
         CycleStep /\ ConstRead(x, <<>>, ReadOp("ToString", "", <<>>, pretty))

SpecCycle == InitCycle /\ [][NextCycle]_vars_all

\* the records held by the Jsons stored in record r
Contained(r) == {data_[j] : j \in Range(ChildImpls(value_[r]))}

RECURSIVE Within(_)
\* the records reached from the records of S through any number of elements
Within(S) ==
    LET T == S \cup UNION {Contained(r) : r \in S}
    IN IF T = S THEN S ELSE Within(T)

\* some record reached from Impl i contains itself, directly or not
Cyclic(i) == \E r \in Within({data_[i]}) : r \in Within(Contained(r))

\* C6: ToString, compact or pretty, of a Json that contains itself at any
\* depth raises the exception instead of recursing without end.
C6_CycleRefused ==
    (last.op = "ToString" /\ vars[last.var] # NoImpl /\ Cyclic(vars[last.var]))
        => last.err = "Exception"

\* pretty ToString was refused on a Json that contains itself two levels down
C6_Witness ==
    /\ last.op = "ToString" /\ last.arg = "TRUE" /\ last.err = "Exception"
    /\ Cyclic(vars[last.var])
    /\ data_[vars[last.var]] \notin Contained(data_[vars[last.var]])
    /\ data_[vars[last.var]] \in Within(Contained(data_[vars[last.var]]))

\* Printer::visiting_ during one Impl::ToString, as the printer keeps it:
\* visiting is the member, path the Impls whose PrintWithCircularCheck call
\* has not returned, seen the Impls entered so far; exact tells that visiting
\* was the path at every entry, again that an Impl was entered a second time
NoVisit ==
    [visiting |-> {}, path |-> {}, seen |-> {}, err |-> "none",
     exact |-> TRUE, again |-> FALSE]

\* visiting_.insert(impl)
Entered(w, i) ==
    [w EXCEPT !.visiting = @ \cup {i}, !.path = @ \cup {i}, !.seen = @ \cup {i},
              !.exact = @ /\ w.visiting = w.path, !.again = @ \/ i \in w.seen]

\* a printer that keeps the Impl in visiting_ when the call is over
LeaveKept(w, i, path) == [w EXCEPT !.path = path]

\* visiting_.erase(impl), after Print returned and in the catch block alike
Leave(w, i, path) == [w EXCEPT !.visiting = @ \ {i}, !.path = path]

RECURSIVE Visit(_, _, _)
RECURSIVE VisitAll(_, _, _)
\* the loops of PrintValue(const Array&) and PrintValue(const Object&): the
\* first element that fails ends them
VisitAll(h, kids, w) ==
    IF kids = <<>> \/ w.err # "none" THEN w
    ELSE VisitAll(h, Tail(kids), Visit(h, Head(kids), w))

\* Printer::PrintWithCircularCheck(impl), for what it does to visiting_
Visit(h, i, w) ==
    IF i \in w.visiting
    THEN [w EXCEPT !.err = "Exception", !.exact = @ /\ w.visiting = w.path]
    ELSE Leave(VisitAll(h, ChildImpls(h.value_[h.data_[i]]), Entered(w, i)),
               i, w.path)

\* C25: during one ToString the visiting set holds exactly the Impls on the
\* path of the descent, and it is empty when the call is over, whether it
\* succeeded or failed; a Json that contains no cycle, shared records
\* included, is printed without the exception; and a second ToString of the
\* same Json in the same mode gives what the first gave.
C25_VisitingIsThePath ==
    (last.op = "ToString" /\ vars[last.var] # NoImpl) =>
        \A w \in {Visit(Heap, vars[last.var], NoVisit)} :
        \A again \in {JsonToString(Heap, vars[last.var], last.arg = "TRUE")} :
            /\ w.exact /\ w.visiting = {}
            /\ w.err = last.err
            /\ ~Cyclic(vars[last.var]) => last.err = "none"
            /\ again.err = last.err /\ again.ret = last.ret

\* ToString printed a Json in which an Impl is reached twice, through two
\* elements that share a record
C25_Witness ==
    /\ last.op = "ToString" /\ vars[last.var] # NoImpl /\ last.err = "none"
    /\ Visit(Heap, vars[last.var], NoVisit).again

\* ToString failed on a Json that contains itself, and the visiting set was
\* unwound
C25_WitnessFailed ==
    /\ last.op = "ToString" /\ vars[last.var] # NoImpl /\ last.err = "Exception"
    /\ Visit(Heap, vars[last.var], NoVisit).visiting = {}

(***************************************************************************)
(* SpecRT: v is parsed from a text and edited; the program prints v,       *)
(* parses the text into c and prints c in the same mode.                   *)
(***************************************************************************)
TxtTwoKeys == <<123, 34, 97, 34, 58, 49, 44, 34, 98, 34, 58, 50, 125>>  \* {"a":1,"b":2}
TxtMixed == <<91, 49, 44, 34, 115, 32, 116, 34, 93>>                    \* [1,"s t"]
RTTexts == {TxtNum, TxtObjArr, TxtTwoKeys, TxtMixed}
RTStrings == {<<34, 32>>, <<195, 169>>}

InitRT ==
    /\ \E t \in RTTexts : Install(AfterParse(EmptyHeap, "v", t))
    /\ scope = {"v"}
    /\ ref = VarLoc("")
    /\ last = NoLast
    /\ ops = 0
    /\ hist = NoHist
    /\ parsed = NoParsed
    /\ access_count_ = NoCounts
    /\ threads = NoThreads
    /\ unpooled = NoRun

RTStep == SeqTick(MaxRTOps) /\ UNCHANGED <<ref, hist>>

NextRT ==
    \/ \E path \in PathsOf("v") : \E str \in RTStrings :
         RTStep /\ SetOp("v", path, StrP(str)) /\ UNCHANGED parsed
    \/ \E pretty \in BOOLEAN :
         /\ RTStep
         /\ ConstRead("v", <<>>, ReadOp("ToString", "", <<>>, pretty))
         /\ UNCHANGED parsed
    \/ /\ RTStep
       /\ last.op = "ToString" /\ last.var = "v" /\ last.err = "none"
       /\ ParseInto("c", last.ret.s)
       /\ parsed' = [text |-> last.ret.s, pretty |-> last.arg = "TRUE"]
    \/ /\ RTStep
       /\ last.op = "Parse" /\ last.err = "none"
       /\ ConstRead("c", <<>>, ReadOp("ToString", "", <<>>, parsed.pretty))
       /\ UNCHANGED parsed

SpecRT == InitRT /\ [][NextRT]_vars_all

\* C7: the text ToString produced parses, and printing the parsed Json in
\* the same mode gives the same text again.
C7_RoundTrip ==
    /\ last.op = "Parse" => last.err = "none"
    /\ (last.op = "ToString" /\ last.var = "c") =>
           (last.err = "none" /\ last.ret.s = parsed.text)

Whitespace == {32, 9, 10, 13}

RECURSIVE StripWs(_, _, _)
\* text without the whitespace that stands outside string literals; inStr
\* and esc tell whether the scan is inside a literal and after a backslash
StripWs(text, inStr, esc) ==
    IF text = <<>> THEN <<>>
    ELSE LET ch == Head(text)
         IN IF inStr
            THEN <<ch>> \o StripWs(Tail(text), ~(ch = 34 /\ ~esc), ~esc /\ ch = 92)
            ELSE IF ch \in Whitespace THEN StripWs(Tail(text), FALSE, FALSE)
            ELSE <<ch>> \o StripWs(Tail(text), ch = 34, FALSE)

\* Parse treats the two texts alike: both raise, or both give the same value
SameResult(ps, pt) ==
    /\ ps.err = pt.err
    /\ ps.err = "none" =>
         DeepVal(ps.h, ps.j, MaxDepth + 2) = DeepVal(pt.h, pt.j, MaxDepth + 2)

SameParse(s, t) == SameResult(JsonParse(EmptyHeap, s), JsonParse(EmptyHeap, t))

Compact(x) == ImplToString(Heap, vars[x], FALSE)

ArrLiterals == {NumP(1), StrP(<<115>>)}
Indices == 0..MaxSize

InitArr ==
    /\ Install(ConstructedInto(MakeContainer(EmptyHeap, ArrP(<<>>)), "v"))
    /\ scope = {"v"}
    /\ ref = VarLoc("")
    /\ last = NoLast
    /\ ops = 0
    /\ hist = NoHist
    /\ parsed = NoParsed
    /\ access_count_ = NoCounts
    /\ threads = NoThreads
    /\ unpooled = NoRun

ArrStep == SeqTick(MaxArrOps) /\ UNCHANGED <<ref, parsed>>

NextArr ==
    \/ \E x \in VarNames : \E lit \in ArrLiterals :
         /\ ArrStep
         /\ PushBackLit(x, <<>>, lit)
         /\ hist' = [hist EXCEPT ![x] = IF last'.err = "none" THEN Append(@, lit) ELSE @]
    \/ \E x \in VarNames :
         /\ ArrStep
         /\ PopBack(x, <<>>)
         /\ hist' = [hist EXCEPT ![x] = IF last'.err = "none"
                                        THEN SubSeq(@, 1, Len(@) - 1) ELSE @]
    \/ /\ ArrStep
       /\ CopyConstruct("c", "v")
       /\ hist' = [hist EXCEPT !["c"] = hist["v"]]
    \/ \E x \in VarNames : \E i \in Indices :
         /\ ArrStep
         /\ MutRead(x, <<Step("idx", i, <<>>)>>, ReadOp("At", "", <<>>, FALSE))
         /\ UNCHANGED hist
    \/ \E x \in VarNames : \E i \in Indices :
         /\ ArrStep
         /\ ConstRead(x, <<Step("idx", i, <<>>)>>, ReadOp("At", "", <<>>, FALSE))
         /\ UNCHANGED hist
    \/ \E x \in VarNames :
         /\ ArrStep
         /\ ConstRead(x, <<>>, ReadOp("Size", "", <<>>, FALSE))
         /\ UNCHANGED hist
    \/ \E x \in VarNames :
         /\ ArrStep
         /\ MutRead(x, <<>>, ReadOp("Iterate", "", <<>>, FALSE))
         /\ UNCHANGED hist
    \/ \E x \in VarNames :
         /\ ArrStep
         /\ ConstRead(x, <<>>, ReadOp("Iterate", "", <<>>, FALSE))
         /\ UNCHANGED hist

SpecArr == InitArr /\ [][NextArr]_vars_all

\* an element as the reads show it, and a pushed payload in the same form
Shown(d) == [tag |-> d.tag, b |-> d.b, n |-> d.n, s |-> d.s]

\* C10: an array is the sequence of the values pushed and not popped, in the
\* order pushed: Size is its length, a[i] and the iteration from begin() to
\* end() give its i-th value, also on a copy; a[i] with i >= Size raises the
\* exception, and so does PopBack on the empty array.
C10_ArrayIsSequence ==
    [][LET seq == hist[last'.var]
           i == last'.path[1].i
       IN /\ last'.op = "Size" => (last'.err = "none" /\ last'.ret.n = Len(seq))
          /\ last'.op = "At" =>
               IF i < Len(seq)
               THEN /\ last'.err = "none"
                    /\ Shown(last'.ret.elems[1]) = Shown(seq[i + 1])
               ELSE last'.err = "Exception"
          /\ last'.op = "Iterate" =>
               /\ last'.err = "none"
               /\ Len(last'.ret.elems) = Len(seq)
               /\ \A k \in 1..Len(seq) : Shown(last'.ret.elems[k]) = Shown(seq[k])
          /\ last'.op = "PopBack" =>
               (last'.err = "Exception" <=> seq = <<>>)
          /\ last'.op = "PushBack" => last'.err = "none"]_vars_all

\* the iteration over the copy gave the two different values pushed, in the
\* order pushed
C10_Witness ==
    /\ last.op = "Iterate" /\ last.err = "none" /\ last.var = "c"
    /\ Len(hist[last.var]) = 2 /\ hist[last.var][1] # hist[last.var][2]
    /\ Len(last.ret.elems) = 2
    /\ Shown(last.ret.elems[1]) = Shown(hist[last.var][1])

(***************************************************************************)
(* SpecObj: v is parsed from the text of an object; keys are removed,      *)
(* assigned and read through v and through a copy c of it.                 *)
(***************************************************************************)
TxtEmptyObj == <<123, 125>>                                \* {}
ObjTexts == {TxtEmptyObj, TxtObj, TxtTwoKeys, TxtObjArr}

KeyPath(k) == <<Step("key", 0, k)>>

InitObj ==
    /\ \E t \in ObjTexts : Install(AfterParse(EmptyHeap, "v", t))
    /\ scope = {"v"}
    /\ ref = VarLoc("")
    /\ last = NoLast
    /\ ops = 0
    /\ hist = NoHist
    /\ parsed = NoParsed
    /\ access_count_ = NoCounts
    /\ threads = NoThreads
    /\ unpooled = NoRun

ObjStep == SeqTick(MaxObjOps) /\ UNCHANGED <<ref, hist, parsed>>

NextObj ==
    \/ \E x \in VarNames : \E k \in KeySet : ObjStep /\ Remove(x, <<>>, k)
    \/ ObjStep /\ CopyConstruct("c", "v")
    \/ \E x \in VarNames : \E k \in KeySet :
         ObjStep /\ AssignLit(x, KeyPath(k), NumP(2))
    \/ \E x \in VarNames : \E k \in KeySet :
         ObjStep /\ ConstRead(x, <<>>, ReadOp("Contains", "", k, FALSE))
    \/ \E x \in VarNames :
         ObjStep /\ ConstRead(x, <<>>, ReadOp("Size", "", <<>>, FALSE))
    \/ \E x \in VarNames :
         ObjStep /\ ConstRead(x, <<>>, ReadOp("Keys", "", <<>>, FALSE))
    \/ \E x \in VarNames : \E k \in KeySet :
         ObjStep /\ MutRead(x, KeyPath(k), ReadOp("At", "", <<>>, FALSE))
    \/ \E x \in VarNames : \E k \in KeySet :
         ObjStep /\ ConstRead(x, KeyPath(k), ReadOp("At", "", <<>>, FALSE))

SpecObj == InitObj /\ [][NextObj]_vars_all

\* what x.Contains(k) answers
Has(x, k) == JsonContains(Heap, vars[x], k).ret.b

\* what x.Size() answers
SizeOf(x) == JsonSize(Heap, vars[x]).ret.n

\* the value const x[k] refers to, when k is present
MappedTo(x, k) ==
    DeepVal(Heap, NavConst(Heap, vars[x], KeyPath(k)).j, MaxDepth + 1)

\* C11: o.Remove(k) on an object raises nothing; afterwards Contains(k) is
\* false, every other key is present exactly if it was before and maps to the
\* value it mapped to, and Size dropped by 1 if k was present, by 0 if not.
C11_RemoveFrame ==
    [][\A x \in VarNames : \A k \in KeySet :
         (/\ last'.op = "Remove" /\ last'.var = x /\ last'.arg = ToString(k)
          /\ JsonIs(Heap, vars[x], "Object"))
         => /\ last'.err = "none"
            /\ ~Has(x, k)'
            /\ \A o \in KeySet \ {k} :
                 /\ Has(x, o)' = Has(x, o)
                 /\ Has(x, o) => MappedTo(x, o)' = MappedTo(x, o)
            /\ SizeOf(x)' = SizeOf(x) - (IF Has(x, k) THEN 1 ELSE 0)]_vars_all

\* Remove erased the key a of an object of two keys that a copy shares: the
\* object holds the key b alone, the copy still holds both
C11_Witness ==
    /\ last.op = "Remove" /\ last.var = "v" /\ last.arg = ToString(<<97>>)
    /\ last.err = "none" /\ Cloned(last)
    /\ SizeOf("v") = 1 /\ Has("v", <<98>>) /\ ~Has("v", <<97>>)
    /\ "c" \in scope /\ SizeOf("c") = 2

\* the type of the value const x[k] refers to, when k is present
MappedType(x, k) ==
    JsonGetType(Heap, NavConst(Heap, vars[x], KeyPath(k)).j)

\* C24: non-const o[k] on an object o raises nothing and returns the element
\* at k.  When k was absent the element is a new Null: Contains(k) is true
\* afterwards, Size grew by exactly 1 and every other key is present as
\* before and maps to the value it mapped to.  When k was present the
\* element is the one that was there, and Size and all entries are as before.
C24_KeyAccessCreates ==
    [][\A x \in VarNames : \A k \in KeySet :
         (/\ last'.op = "At" /\ ~last'.cst /\ last'.var = x
          /\ last'.path = KeyPath(k)
          /\ JsonIs(Heap, vars[x], "Object"))
         => /\ last'.err = "none"
            /\ Has(x, k)'
            /\ last'.ret.elems = <<MappedTo(x, k)'>>
            /\ \A o \in KeySet \ {k} :
                 /\ Has(x, o)' = Has(x, o)
                 /\ Has(x, o) => MappedTo(x, o)' = MappedTo(x, o)
            /\ IF Has(x, k)
               THEN /\ SizeOf(x)' = SizeOf(x)
                    /\ MappedTo(x, k)' = MappedTo(x, k)
               ELSE /\ SizeOf(x)' = SizeOf(x) + 1
                    /\ MappedType(x, k)' = "Null"]_vars_all

\* key access with the absent key b on {"a":1}, which a copy shares: the
\* object holds a and b, b maps to Null, and the copy holds a alone
C24_Witness ==
    /\ last.op = "At" /\ ~last.cst /\ last.var = "v"
    /\ last.path = KeyPath(<<98>>) /\ last.err = "none" /\ Cloned(last)
    /\ SizeOf("v") = 2 /\ Has("v", <<97>>) /\ MappedType("v", <<98>>) = "Null"
    /\ "c" \in scope /\ SizeOf("c") = 1

(***************************************************************************)
(* SpecErr: v is parsed from a text of each type and c is a copy of it;    *)
(* the program applies the operations of every type to v and to c, so      *)
(* that most of them meet a Json of another type and raise.                *)
(***************************************************************************)
TxtOpen == <<91, 49>>                                      \* [1
ErrTexts == {TxtNull, TxtTrue, TxtNum, TxtStr, TxtArr, TxtObj}
AssignedTexts == {TxtOpen, TxtArr}

InitErr ==
    /\ \E t \in ErrTexts :
         Install(AfterCopy(AfterParse(EmptyHeap, "v", t), "c", "v"))
    /\ scope = {"v", "c"}
    /\ ref = VarLoc("")
    /\ last = NoLast
    /\ ops = 0
    /\ hist = NoHist
    /\ parsed = NoParsed
    /\ access_count_ = NoCounts
    /\ threads = NoThreads
    /\ unpooled = NoRun

ErrStep == SeqTick(MaxErrOps) /\ UNCHANGED <<ref, hist, parsed>>

NextErr ==
    \/ \E x \in VarNames : ErrStep /\ PushBackLit(x, <<>>, NumP(2))
    \/ \E x \in VarNames, y \in VarNames : ErrStep /\ PushBackMove(x, y)
    \/ \E x \in VarNames : ErrStep /\ PopBack(x, <<>>)
    \/ \E x \in VarNames : ErrStep /\ Remove(x, <<>>, <<97>>)
    \/ \E x \in VarNames : \E path \in ElementPaths :
         ErrStep /\ MutRead(x, path, ReadOp("At", "", <<>>, FALSE))
    \/ \E x \in VarNames : \E path \in ElementPaths :
         ErrStep /\ ConstRead(x, path, ReadOp("At", "", <<>>, FALSE))
    \/ \E x \in VarNames :
         ErrStep /\ ConstRead(x, <<>>, ReadOp("Contains", "", <<97>>, FALSE))
    \/ \E x \in VarNames :
         ErrStep /\ ConstRead(x, <<>>, ReadOp("Keys", "", <<>>, FALSE))
    \/ \E x \in VarNames :
         ErrStep /\ ConstRead(x, <<>>, ReadOp("Size", "", <<>>, FALSE))
    \/ \E x \in VarNames : \E T \in GetTypes :
         ErrStep /\ ConstRead(x, <<>>, ReadOp("Get", T, <<>>, FALSE))
    \/ \E x \in VarNames : \E t \in AssignedTexts :
         ErrStep /\ ParseAssign(x, t)

SpecErr == InitErr /\ [][NextErr]_vars_all

\* the operation op, applied through path to a Json of type tag, needs a Json
\* of another type
WrongKind(op, path, tag) ==
    \/ op \in {"PushBack", "PopBack"} /\ path = <<>> /\ tag # "Array"
    \/ op \in {"Contains", "Remove", "Keys"} /\ path = <<>> /\ tag # "Object"
    \/ op = "Size" /\ path = <<>> /\ tag \notin {"Array", "Object"}
    \/ op = "At" /\ Len(path) = 1 /\ path[1].kind = "idx" /\ tag # "Array"
    \/ op = "At" /\ Len(path) = 1 /\ path[1].kind = "key" /\ tag # "Object"

TypeOf(x) == JsonGetType(Heap, vars[x])

\* C12: PushBack, PopBack and index access on a Json that is no array, key
\* access (const or not), Contains, Remove and Keys on a Json that is no
\* object, and Size on a Json that is neither, raise the generic exception,
\* and the Json has the type it had.
C12_WrongKindRaises ==
    [][\A x \in VarNames :
         (/\ last'.var = x /\ vars[x] # NoImpl
          /\ WrongKind(last'.op, last'.path, TypeOf(x)))
         => (last'.err = "Exception" /\ TypeOf(x)' = TypeOf(x))]_vars_all

\* key access through the Json itself met Null and raised; the Json is Null
\* as before, and has no key
C12_Witness ==
    /\ last.op = "At" /\ ~last.cst /\ last.path = KeyPath(<<97>>)
    /\ last.err = "Exception"
    /\ TypeOf(last.var) = "Null"

\* what the reads and ToString tell about x
Shows(x) ==
    [val |-> Observable(x),
     err |-> JsonToString(Heap, vars[x], FALSE).err,
     text |-> JsonToString(Heap, vars[x], FALSE).ret.s]

\* C13: an operation that raises (the type error, the parse error or the
\* generic exception) leaves the Json it was called on, and the Json that
\* shared its record, showing what they showed before.
C13_StrongGuarantee ==
    [][last'.err # "none" => \A y \in VarNames : Shows(y)' = Shows(y)]_vars_all

(***************************************************************************)
(* SpecParse: the program parses a text into v and reads what it got.      *)
(* parsed.text is the text of the last Parse.                              *)
(***************************************************************************)
\* texts that the grammar rejects, by the rule they break
BadTexts ==
    {<<>>,                                         \* empty or whitespace-only text:  
     <<32>>,                                       \* empty or whitespace-only text:   
     <<10, 9, 32>>,                                \* empty or whitespace-only text:  \n\t 
     <<91, 49>>,                                   \* unclosed array or object:  [1
     <<91>>,                                       \* unclosed array or object:  [
     <<123>>,                                      \* unclosed array or object:  {
     <<123, 34, 97, 34, 58, 49>>,                  \* unclosed array or object:  {"a":1
     <<91, 91, 49, 93>>,                           \* unclosed array or object:  [[1]
     <<93>>,                                       \* unopened array or object:  ]
     <<125>>,                                      \* unopened array or object:  }
     <<49, 93>>,                                   \* unopened array or object:  1]
     <<49, 125>>,                                  \* unopened array or object:  1}
     <<123, 34, 97, 34, 58, 125>>,                 \* missing value:  {"a":}
     <<91, 44, 49, 93>>,                           \* missing value:  [,1]
     <<123, 34, 97, 34, 125>>,                     \* missing value:  {"a"}
     <<44>>,                                       \* missing value:  ,
     <<91, 49, 32, 50, 93>>,                       \* missing comma:  [1 2]
     <<123, 34, 97, 34, 58, 49, 32, 34, 98, 34, 58, 50, 125>>, \* missing comma:  {"a":1 "b":2}
     <<91, 49, 44, 93>>,                           \* trailing comma:  [1,]
     <<123, 34, 97, 34, 58, 49, 44, 125>>,         \* trailing comma:  {"a":1,}
     <<123, 97, 58, 49, 125>>,                     \* unquoted or single-quoted key or string:  {a:1}
     <<123, 39, 97, 39, 58, 49, 125>>,             \* unquoted or single-quoted key or string:  {'a':1}
     <<39, 97, 39>>,                               \* unquoted or single-quoted key or string:  'a'
     <<97>>,                                       \* unquoted or single-quoted key or string:  a
     <<117, 110, 100, 101, 102, 105, 110, 101, 100>>, \* unknown literal:  undefined
     <<78, 97, 78>>,                               \* unknown literal:  NaN
     <<73, 110, 102, 105, 110, 105, 116, 121>>,    \* unknown literal:  Infinity
     <<110, 117, 108>>,                            \* unknown literal:  nul
     <<84, 114, 117, 101>>,                        \* unknown literal:  True
     <<34, 97>>,                                   \* unterminated string:  "a
     <<34, 97, 92>>,                               \* unterminated string:  "a\
     <<34, 97, 92, 34>>,                           \* unterminated string:  "a\"
     <<34, 92, 117, 49, 50, 71, 52, 34>>,          \* invalid or incomplete \u escape:  "\u12G4"
     <<34, 92, 117, 49, 50, 34>>,                  \* invalid or incomplete \u escape:  "\u12"
     <<34, 92, 117, 49, 50, 51>>,                  \* invalid or incomplete \u escape:  "\u123
     <<34, 92, 117, 34>>,                          \* invalid or incomplete \u escape:  "\u"
     <<48, 49>>,                                   \* number with a leading zero:  01
     <<45, 48, 49>>,                               \* number with a leading zero:  -01
     <<91, 48, 48, 93>>,                           \* number with a leading zero:  [00]
     <<46, 53>>,                                   \* leading '.':  .5
     <<45, 46, 53>>,                               \* leading '.':  -.5
     <<49, 46>>,                                   \* no digit after '.':  1.
     <<49, 46, 101, 53>>,                          \* no digit after '.':  1.e5
     <<91, 49, 46, 93>>,                           \* no digit after '.':  [1.]
     <<49, 101>>,                                  \* no digit after the exponent sign:  1e
     <<49, 101, 43>>,                              \* no digit after the exponent sign:  1e+
     <<49, 69, 45>>,                               \* no digit after the exponent sign:  1E-
     <<91, 49, 101, 43, 93>>,                      \* no digit after the exponent sign:  [1e+]
     <<49, 32, 50>>,                               \* content after the top-level value:  1 2
     <<110, 117, 108, 108, 32, 120>>,              \* content after the top-level value:  null x
     <<91, 49, 93, 93>>,                           \* content after the top-level value:  [1]]
     <<123, 125, 123, 125>>,                       \* content after the top-level value:  {}{}
     <<34, 97, 34, 98>>,                           \* content after the top-level value:  "a"b
     <<116, 114, 117, 101, 102, 97, 108, 115, 101>>, \* content after the top-level value:  truefalse
     <<49, 44>>}                                   \* content after the top-level value:  1,

\* texts of the grammar
GoodTexts ==
    {<<49>>,                                       \* 1
     <<45, 48>>,                                   \* -0
     <<49, 48>>,                                   \* 10
     <<32, 91, 32, 49, 32, 44, 32, 50, 32, 93, 32>>, \*  [ 1 , 2 ] 
     <<34, 97, 34>>,                               \* "a"
     <<123, 34, 97, 34, 58, 91, 49, 93, 125>>,     \* {"a":[1]}
     <<91, 123, 125, 93>>,                         \* [{}]
     <<34, 92, 117, 48, 48, 52, 49, 34>>}          \* "\u0041"

\* texts with a key written more than once in one object: path leads to the
\* object, want is the text of the last value written for the key a, size
\* the number of different keys of the object
DupCases ==
    {
     \* {"a":1,"a":2}
     [text |-> <<123, 34, 97, 34, 58, 49, 44, 34, 97, 34, 58, 50, 125>>,
      path |-> <<>>, want |-> <<50>>, size |-> 1],
     \* {"a":1,"b":1,"a":2}
     [text |-> <<123, 34, 97, 34, 58, 49, 44, 34, 98, 34, 58, 49, 44, 34, 97, 34, 58, 50, 125>>,
      path |-> <<>>, want |-> <<50>>, size |-> 2],
     \* {"a":[1],"a":"s"}
     [text |-> <<123, 34, 97, 34, 58, 91, 49, 93, 44, 34, 97, 34, 58, 34, 115, 34, 125>>,
      path |-> <<>>, want |-> <<34, 115, 34>>, size |-> 1],
     \* {"a":2,"a":1,"a":[1]}
     [text |-> <<123, 34, 97, 34, 58, 50, 44, 34, 97, 34, 58, 49, 44, 34, 97, 34, 58, 91, 49, 93, 125>>,
      path |-> <<>>, want |-> <<91, 49, 93>>, size |-> 1],
     \* [{"a":1,"a":2}]
     [text |-> <<91, 123, 34, 97, 34, 58, 49, 44, 34, 97, 34, 58, 50, 125, 93>>,
      path |-> <<Step("idx", 0, <<>>)>>, want |-> <<50>>, size |-> 1],
     \* {"b":{"a":1,"a":2}}
     [text |-> <<123, 34, 98, 34, 58, 123, 34, 97, 34, 58, 49, 44, 34, 97, 34, 58, 50, 125, 125>>,
      path |-> KeyPath(<<98>>), want |-> <<50>>, size |-> 1]}

DupTexts == {d.text : d \in DupCases}

\* texts of several lines, with literals and \u escapes before the place
\* where the parse ends
LineTexts ==
    {<<91, 110, 117, 108, 108, 44, 10, 32, 120>>,          \* [null,\n x
     <<10, 10, 116, 114, 117, 101, 32, 120>>,              \* \n\ntrue x
     <<34, 92, 117, 48, 48, 52, 49, 1, 34>>,               \* "\u0041<0x01>"
     <<91, 10, 102, 97, 108, 115, 101, 10, 44, 93>>,       \* [\nfalse\n,]
     <<123, 10, 34, 97, 34, 58, 10, 49, 10, 125, 10>>}     \* {\n"a":\n1\n}\n

\* number texts of the grammar whose value is outside the range of double
RangeTexts ==
    {<<49, 101, 57, 57, 57>>,                              \* 1e999
     <<91, 45, 50, 69, 43, 51, 48, 56, 93>>,               \* [-2E+308]
     <<48, 46, 48, 49, 101, 45, 51, 48, 54>>}              \* 0.01e-306

ParseTexts == BadTexts \cup GoodTexts \cup DupTexts \cup LineTexts \cup RangeTexts

InitParse ==
    /\ Install(EmptyHeap)
    /\ scope = {}
    /\ ref = VarLoc("")
    /\ last = NoLast
    /\ ops = 0
    /\ hist = NoHist
    /\ parsed = NoParsed
    /\ access_count_ = NoCounts
    /\ threads = NoThreads
    /\ unpooled = NoRun

ParseStep == SeqTick(MaxParseOps) /\ UNCHANGED <<ref, hist>>

NextParse ==
    \/ \E t \in ParseTexts :
         /\ ParseStep
         /\ ParseInto("v", t)
         /\ parsed' = [text |-> t, pretty |-> FALSE]
    \/ /\ ParseStep
       /\ ConstRead("v", <<>>, ReadOp("ToString", "", <<>>, FALSE))
       /\ UNCHANGED parsed
    \/ /\ ParseStep
       /\ ConstRead("v", <<>>, ReadOp("Keys", "", <<>>, FALSE))
       /\ UNCHANGED parsed
    \/ \E path \in ElementPaths :
         /\ ParseStep
         /\ ConstRead("v", path, ReadOp("At", "", <<>>, FALSE))
         /\ UNCHANGED parsed

SpecParse == InitParse /\ [][NextParse]_vars_all

\* the value a text of the grammar stands for, as the reads show it
ValueOf(ps) == DeepVal(ps.h, ps.j, MaxDepth + 1)

\* the number of times k stands in the list of keys ks
Times(ks, k) == Cardinality({q \in DOMAIN ks : ks[q] = k})

\* the object of the case d inside the Json x
DupObject(x, d) == NavConst(Heap, vars[x], d.path).j

\* C14: a text in which an object has the same key more than once, at the top
\* or nested, parses without error; the object maps the key to the value
\* written last, and Size and Keys count the key once.
C14_LastDuplicateWins ==
    \A d \in DupCases :
        (last.op = "Parse" /\ parsed.text = d.text) =>
            /\ last.err = "none"
            /\ JsonSize(Heap, DupObject(last.var, d)).ret.n = d.size
            /\ Len(JsonKeys(Heap, DupObject(last.var, d)).ret.keys) = d.size
            /\ Times(JsonKeys(Heap, DupObject(last.var, d)).ret.keys, <<97>>) = 1
            /\ DeepVal(Heap, NavConst(Heap, DupObject(last.var, d), KeyPath(<<97>>)).j,
                       MaxDepth + 1)
               = ValueOf(JsonParse(EmptyHeap, d.want))

\* the text with the key a three times and the key b in between was parsed:
\* the object has two keys
C14_Witness ==
    /\ last.op = "Parse" /\ last.err = "none" /\ last.var = "v"
    /\ parsed.text \in DupTexts
    /\ SizeOf("v") = 2 /\ Has("v", <<97>>) /\ Has("v", <<98>>)
    /\ MappedTo("v", <<97>>).n = 2

NewlinesIn(text, n) == {k \in 1..n : text[k] = 10}

\* line_ and column_ of the parser state ps name the offset pos_ in text
Located(text, ps) ==
    /\ ps.line = 1 + Cardinality(NewlinesIn(text, ps.pos))
    /\ ps.col = 1 + ps.pos
                - (IF NewlinesIn(text, ps.pos) = {} THEN 0
                   ELSE CHOOSE k \in NewlinesIn(text, ps.pos) :
                            \A m \in NewlinesIn(text, ps.pos) : m <= k)

\* C22: the line and the column a ParseError carries are those of the
\* offset at which Parse stopped: the line is 1 plus the number of newline
\* characters consumed, the column 1 plus the number of characters consumed
\* since the last newline; the same holds where a successful Parse ends.
C22_ErrorPosition ==
    last.op = "Parse" => Located(parsed.text, JsonParse(EmptyHeap, parsed.text))

\* Parse of  [null,\n x  raised the ParseError at line 2, column 2
C22_Witness ==
    /\ last.op = "Parse" /\ last.err = "ParseError"
    /\ parsed.text = <<91, 110, 117, 108, 108, 44, 10, 32, 120>>
    /\ JsonParse(EmptyHeap, parsed.text).line = 2
    /\ JsonParse(EmptyHeap, parsed.text).col = 2

\* the errors of the library
ErrorKinds == {"TypeError", "ParseError", "Exception"}

\* C29: the error that an operation lets out is a TypeError, a ParseError or
\* the generic exception, and no other.  Parse returns a Json or raises
\* ParseError for every text, a number outside the range of double included,
\* and const key access with an absent key raises the generic exception.
C29_ErrorsAreClosed ==
    /\ last.err \in ErrorKinds \cup {"none"}
    /\ last.op = "Parse" => last.err \in {"none", "ParseError"}
    /\ (last.op = "At" /\ last.cst /\ last.err # "none") => last.err = "Exception"

(***************************************************************************)
(* SpecThreads: the main thread parsed v from the text of an object and    *)
(* started two threads.  Each thread reads v through a const reference,    *)
(* takes a copy of v for itself, reads the copy and destroys it.  An       *)
(* operation that goes through SmartObject::at or SmartObject::contains    *)
(* takes two steps, the load and the store of access_count_++, which is a  *)
(* plain size_t; the other operations take one step.                       *)
(***************************************************************************)
\* the heap as thread t sees it: the records and Impls of the process, and
\* the thread_local pool of t
ThreadHeap(t) ==
    [data_ |-> data_, value_ |-> value_, pool |-> threads[t].pool,
     warm |-> threads[t].warm, warmed |-> threads[t].warmed, vars |-> vars,
     log |-> <<>>, oom |-> FALSE,
     max_pool_size |-> MAX_POOL_SIZE, warmup_size |-> WARMUP_SIZE]

\* the Impl of the Json thread t reads: v, or its own copy of v
Target(t, on) == IF on = "v" THEN vars["v"] ELSE threads[t].c

\* the state of thread t after an operation that left the heap h
ThreadCommit(t, h, th) ==
    /\ ~h.oom
    /\ data_' = h.data_
    /\ value_' = h.value_
    /\ threads' = [threads EXCEPT ![t] = [th EXCEPT !.pool = h.pool,
                                                    !.warm = h.warm,
                                                    !.warmed = h.warmed]]

ThreadStep ==
    /\ Tick(MaxThreadOps)
    /\ UNCHANGED <<object_pool_, warm, warmed, vars, scope, ref, last, hist, parsed,
                   unpooled>>

\* SmartObject::at / SmartObject::contains, first half of access_count_++ :
\* the counter of the object is read into a register
LoadCount(t, on, q, k) ==
    /\ threads[t].pc = "idle"
    /\ Target(t, on) # NoImpl
    /\ JsonIs(Heap, Target(t, on), "Object")
    /\ threads' = [threads EXCEPT ![t] =
                     [@ EXCEPT !.pc = "loaded", !.op = q, !.on = on, !.key = k,
                               !.reg = access_count_[data_[Target(t, on)]]]]
    /\ UNCHANGED <<data_, value_, access_count_>>

\* what const operator[](key) and Contains(key) return once the counter is
\* written
Lookup(h, j, q, k) ==
    IF q = "Contains" THEN JsonContains(h, j, k)
    ELSE IF NavConst(h, j, <<Step("key", 0, k)>>).err # "none"
    THEN Raise(h, NavConst(h, j, <<Step("key", 0, k)>>).err)
    ELSE Ok(h, RElems(<<DeepVal(h, NavConst(h, j, <<Step("key", 0, k)>>).j, MaxDepth)>>))

\* second half of access_count_++ : the register plus one is written back,
\* then the map is searched
StoreCount(t) ==
    /\ threads[t].pc = "loaded"
    /\ \E r \in {Lookup(Heap, Target(t, threads[t].on), threads[t].op, threads[t].key)} :
          threads' = [threads EXCEPT ![t] =
                        [@ EXCEPT !.pc = "idle", !.err = r.err, !.ret = r.ret]]
    /\ access_count_' =
          [access_count_ EXCEPT ![data_[Target(t, threads[t].on)]] = threads[t].reg + 1]
    /\ UNCHANGED <<data_, value_>>

\* Size, Keys and ToString through a const reference: no counter is touched
ThreadRead(t, on, rd) ==
    /\ threads[t].pc = "idle"
    /\ Target(t, on) # NoImpl
    /\ \E r \in {ReadAt(Heap, Target(t, on), TRUE, rd)} :
          threads' = [threads EXCEPT ![t] =
                        [@ EXCEPT !.op = rd.q, !.on = on, !.key = <<>>,
                                  !.err = r.err, !.ret = r.ret]]
    /\ UNCHANGED <<data_, value_, access_count_>>

\* Json c = v;  in thread t: the Impl comes from the pool of t, the count of
\* the record of v is incremented atomically
ThreadCopy(t) ==
    /\ threads[t].pc = "idle" /\ threads[t].c = NoImpl
    /\ \E m \in {CopyJson(ThreadHeap(t), vars["v"])} :
          ThreadCommit(t, m.h, [threads[t] EXCEPT !.op = "Copy", !.on = "v",
                                                  !.key = <<>>, !.err = "none",
                                                  !.ret = RNone, !.c = m.i])
    /\ UNCHANGED access_count_

\* the copy of thread t goes out of scope: Json::~Json in thread t
ThreadDrop(t) ==
    /\ threads[t].pc = "idle" /\ threads[t].c # NoImpl
    /\ ThreadCommit(t, DestroyJson(ThreadHeap(t), threads[t].c),
                    [threads[t] EXCEPT !.op = "Drop", !.on = "own", !.key = <<>>,
                                       !.err = "none", !.ret = RNone, !.c = NoImpl])
    /\ UNCHANGED access_count_

ThreadTexts == {TxtObj, TxtTwoKeys}
Targets == {"v", "own"}

InitThreads ==
    /\ \E t \in ThreadTexts : Install(AfterParse(EmptyHeap, "v", t))
    /\ scope = {"v"}
    /\ ref = VarLoc("")
    /\ last = NoLast
    /\ ops = 0
    /\ hist = NoHist
    /\ parsed = NoParsed
    /\ access_count_ = NoCounts
    /\ threads = NoThreads
    /\ unpooled = NoRun

NextThreads ==
    \/ \E t \in Threads : \E on \in Targets :
         ThreadStep /\ LoadCount(t, on, "At", <<97>>)
    \/ \E t \in Threads : \E on \in Targets :
         ThreadStep /\ LoadCount(t, on, "Contains", <<98>>)
    \/ \E t \in Threads : ThreadStep /\ StoreCount(t)
    \/ \E t \in Threads : \E on \in Targets :
         ThreadStep /\ ThreadRead(t, on, ReadOp("Size", "", <<>>, FALSE))
    \/ \E t \in Threads : \E on \in Targets :
         ThreadStep /\ ThreadRead(t, on, ReadOp("ToString", "", <<>>, FALSE))
    \/ \E t \in Threads : ThreadStep /\ ThreadCopy(t)
    \/ \E t \in Threads : ThreadStep /\ ThreadDrop(t)

SpecThreads == InitThreads /\ [][NextThreads]_vars_all

\* the record of v, which every thread can reach
SharedRec == data_[vars["v"]]

\* two threads are between the load and the store of the same counter
Racing ==
    \E t \in Threads : \E u \in Threads \ {t} :
        /\ threads[t].pc = "loaded" /\ threads[u].pc = "loaded"
        /\ data_[Target(t, threads[t].on)] = data_[Target(u, threads[u].on)]

\* C16: the read operations of concurrent threads on v and on copies that
\* share its record (key access, Contains, Size, ToString, taking a copy)
\* write nothing that another thread can reach but the reference count: the
\* record of v and its object stay as they are, no two threads are inside an
\* unsynchronised update of the same location, and every read returns what
\* the record holds.
C16_ReadersWriteCountsOnly ==
    [][/\ value_'[SharedRec] = value_[SharedRec]
       /\ access_count_'[SharedRec] = access_count_[SharedRec]
       /\ ~Racing'
       /\ \A t \in Threads :
            (threads'[t].pc = "idle" /\ threads'[t].op \in {"At", "Contains"}) =>
                /\ threads'[t].err = Lookup(Heap, vars["v"], threads'[t].op,
                                            threads'[t].key).err
                /\ threads'[t].ret = Lookup(Heap, vars["v"], threads'[t].op,
                                            threads'[t].key).ret]_vars_all

(***************************************************************************)
(* SpecStr: v is constructed from a string, Json v(s); the program prints  *)
(* v in either mode, parses the text into c and reads c with               *)
(* Get<std::string>.                                                       *)
(***************************************************************************)
\* the bytes of the strings: quote, backslash, slash, newline, the control
\* character 0x01, DEL, a letter, and the two bytes of U+00E9 in UTF-8
StrBytes == {34, 92, 47, 10, 1, 127, 97, 195, 169}

RECURSIVE StringsOf(_)
\* the strings over StrBytes of length n or less
StringsOf(n) ==
    IF n = 0 THEN {<<>>}
    ELSE StringsOf(n - 1)
         \cup {Append(t, b) : t \in {u \in StringsOf(n - 1) : Len(u) = n - 1},
                              b \in StrBytes}

InitStr ==
    /\ \E str \in StringsOf(MaxStrLen) :
         Install(ConstructedInto(MakeScalar(EmptyHeap, StrP(str)), "v"))
    /\ scope = {"v"}
    /\ ref = VarLoc("")
    /\ last = NoLast
    /\ ops = 0
    /\ hist = NoHist
    /\ parsed = NoParsed
    /\ access_count_ = NoCounts
    /\ threads = NoThreads
    /\ unpooled = NoRun

StrStep == SeqTick(MaxStrOps) /\ UNCHANGED <<ref, hist>>

NextStr ==
    \/ \E pretty \in BOOLEAN :
         /\ StrStep
         /\ ConstRead("v", <<>>, ReadOp("ToString", "", <<>>, pretty))
         /\ UNCHANGED parsed
    \/ /\ StrStep
       /\ last.op = "ToString" /\ last.err = "none"
       /\ ParseInto("c", last.ret.s)
       /\ parsed' = [text |-> last.ret.s, pretty |-> last.arg = "TRUE"]
    \/ \E x \in VarNames :
         /\ StrStep
         /\ ConstRead(x, <<>>, ReadOp("Get", "string", <<>>, FALSE))
         /\ UNCHANGED parsed

SpecStr == InitStr /\ [][NextStr]_vars_all

\* the string v was constructed from
StringOf(x) == value_[data_[vars[x]]].s

\* C19: for every string s, the text ToString gives for Json(s) in either
\* mode parses, and Get<std::string> on the parsed Json returns s byte for
\* byte.
C19_StringRoundTrip ==
    /\ last.op = "Parse" => last.err = "none"
    /\ (last.op = "Get" /\ last.var = "c") =>
           (last.err = "none" /\ last.ret = RStr(StringOf("v")))

(***************************************************************************)
(* SpecPool: v is parsed from a text; the program declares the copy c of   *)
(* v in an inner block, writes to v and to c, and leaves the block, which  *)
(* destroys c; it may enter the block again.                               *)
(***************************************************************************)
PoolTexts == {TxtNum, TxtStr, TxtArr, TxtObj}

InitPool ==
    /\ \E t \in PoolTexts : Install(AfterParse(EmptyHeap, "v", t))
    /\ scope = {"v"}
    /\ ref = VarLoc("")
    /\ last = NoLast
    /\ ops = 0
    /\ hist = NoHist
    /\ parsed = NoParsed
    /\ access_count_ = NoCounts
    /\ threads = NoThreads
    /\ unpooled = NoRun

PoolStep == SeqTick(MaxPoolOps) /\ UNCHANGED <<ref, hist, parsed>>

NextPool ==
    \/ PoolStep /\ CopyConstruct("c", "v")
    \/ PoolStep /\ EndScope("c")
    \/ \E x \in VarNames : PoolStep /\ SetOp(x, <<>>, NumP(2))
    \/ \E x \in VarNames : PoolStep /\ AssignLit(x, <<>>, EmptyObject)
    \/ \E x \in VarNames :
         PoolStep /\ ConstRead(x, <<>>, ReadOp("ToString", "", <<>>, FALSE))

SpecPool == InitPool /\ [][NextPool]_vars_all

\* the Impls stored in object_pool_
Pooled == {object_pool_[k] : k \in 1..Len(object_pool_)}

\* Impl i is logically Null and refers to no record that another Impl uses
HoldsNothing(i) ==
    \/ data_[i] = NoRec
    \/ /\ value_[data_[i]].tag = "Null"
       /\ UseCount(Heap, data_[i]) = 1

\* C20: every Impl stored in the pool is logically Null and refers to no
\* shared record, because the destructor of a Json gives up the record
\* before the Impl is pooled; so once every copy of v is destroyed, the
\* count of the record of v is 1 again.
C20_PoolHoldsNoData ==
    /\ \A i \in Pooled : HoldsNothing(i)
    /\ (last.op = "EndScope" /\ scope = {"v"}) => UseCount(Heap, data_[vars["v"]]) = 1

(***************************************************************************)
(* SpecRuns: one program, run twice in step: on the library as it is, in   *)
(* the variables of the model, and on the build whose pool has capacity 0, *)
(* in unpooled.  v is parsed from the text of an object; the program takes *)
(* a reference r to v["a"], declares a copy c of v in an inner block and   *)
(* leaves the block, reads v["a"] through v itself, writes through r and   *)
(* prints v.  The program uses r as long as r is valid on the build        *)
(* without the pool.                                                       *)
(***************************************************************************)
Fresh(h) == [h EXCEPT !.log = <<>>]

\* the reference r after an operation that left the heap h: it refers to
\* nothing once the record it points into was written or freed
StillRefers(h, r) ==
    IF \E k \in DOMAIN h.log : h.log[k].rec = r.rec /\ h.log[k].ev \in {"write", "free"}
    THEN VarLoc("") ELSE r

\* the run after an operation with the result res
Ran(res, r) == [h |-> res.h, ref |-> StillRefers(res.h, r), err |-> res.err, ret |-> res.ret]

\* { Json c = v;
RunCopy(h, r) == Ran(Ok(AfterCopy(Fresh(h), "c", "v"), RNone), r)

\* }
RunEndScope(h, r) ==
    Ran(Ok(SetSlot(DestroyJson(Fresh(h), h.vars["c"]), VarLoc("c"), NoImpl), RNone), r)

TookRef(nav) ==
    [h |-> nav.h, ref |-> IF nav.err = "none" THEN nav.loc ELSE VarLoc(""),
     err |-> nav.err, ret |-> RNone]

\* Json& r = v[k];
RunTakeRef(h, k) == TookRef(NavMut(Fresh(h), VarLoc("v"), h.vars["v"], KeyPath(k)))

ReadFound(nav, rd) ==
    IF nav.err # "none" THEN Raise(nav.h, nav.err) ELSE ReadAt(nav.h, nav.j, FALSE, rd)

\* v[k].Get<int>();  through the non-const operator[]
RunAt(h, r, k) ==
    Ran(ReadFound(NavMut(Fresh(h), VarLoc("v"), h.vars["v"], KeyPath(k)),
                  ReadOp("Get", "int", <<>>, FALSE)), r)

\* the Impl owned by the Json that r refers to in heap h
RefImplOf(h, r) ==
    IF h.value_[r.rec].tag = "Array" THEN h.value_[r.rec].arr[r.pos]
    ELSE h.value_[r.rec].obj[r.pos].val

\* r.Set(p);
RunRefSet(h, r, p) == Ran(JsonSet(Fresh(h), RefImplOf(h, r), p), r)

\* r.Set(p) when the record r pointed into is freed: the behaviour is
\* undefined; the write is lost in the freed memory, or the program is ended
\* by a signal
RunDangling(h, r, outcome) == [h |-> Fresh(h), ref |-> r, err |-> outcome, ret |-> RNone]

\* x.ToString();
RunToString(h, r, x) == Ran(JsonToString(Fresh(h), h.vars[x], FALSE), r)

\* the operation op took the run of the library to p and the run of the
\* build without the pool to u
BothRan(op, x, p, u) ==
    /\ Done(op, x, <<>>, FALSE, "", p)
    /\ ref' = p.ref
    /\ unpooled' = u

RunTexts == {TxtObj, TxtTwoKeys}

InitRuns ==
    /\ \E t \in RunTexts :
         /\ Install(AfterParse(EmptyHeap, "v", t))
         /\ unpooled = [NoRun EXCEPT !.h = Fresh(AfterParse(UnpooledHeap, "v", t))]
    /\ scope = {"v"}
    /\ ref = VarLoc("")
    /\ last = NoLast
    /\ ops = 0
    /\ hist = NoHist
    /\ parsed = NoParsed
    /\ access_count_ = NoCounts
    /\ threads = NoThreads

\* the program is over once a signal ended it
RunsStep ==
    /\ last.err # "signal"
    /\ Tick(MaxRunOps)
    /\ UNCHANGED <<hist, parsed, access_count_, threads>>

NextRuns ==
    \/ /\ RunsStep
       /\ BothRan("TakeRef", "v", RunTakeRef(Heap, <<97>>), RunTakeRef(unpooled.h, <<97>>))
       /\ UNCHANGED scope
    \/ /\ RunsStep /\ "c" \notin scope
       /\ BothRan("CopyConstruct", "c", RunCopy(Heap, ref), RunCopy(unpooled.h, unpooled.ref))
       /\ scope' = scope \cup {"c"}
    \/ /\ RunsStep /\ "c" \in scope
       /\ BothRan("EndScope", "c", RunEndScope(Heap, ref),
                  RunEndScope(unpooled.h, unpooled.ref))
       /\ scope' = scope \ {"c"}
    \/ /\ RunsStep
       /\ BothRan("At", "v", RunAt(Heap, ref, <<97>>), RunAt(unpooled.h, unpooled.ref, <<97>>))
       /\ UNCHANGED scope
    \/ /\ RunsStep /\ unpooled.ref.rec # NoRec /\ ref.rec # NoRec
       /\ BothRan("Set", "r", RunRefSet(Heap, ref, NumP(2)),
                  RunRefSet(unpooled.h, unpooled.ref, NumP(2)))
       /\ UNCHANGED scope
    \/ \E outcome \in {"none", "signal"} :
         /\ RunsStep /\ unpooled.ref.rec # NoRec /\ ref.rec = NoRec
         /\ BothRan("Set", "r", RunDangling(Heap, ref, outcome),
                    RunRefSet(unpooled.h, unpooled.ref, NumP(2)))
         /\ UNCHANGED scope
    \/ \E x \in scope :
         /\ RunsStep
         /\ BothRan("ToString", x, RunToString(Heap, ref, x),
                    RunToString(unpooled.h, unpooled.ref, x))
         /\ UNCHANGED scope

SpecRuns == InitRuns /\ [][NextRuns]_vars_all

\* C21: the pool is transparent: every operation of the program returns the
\* same value, raises the same error and prints the same text on the
\* library as on the build without the pool, and the two runs show the same
\* content of v.
C21_PoolTransparent ==
    /\ last.err = unpooled.err
    /\ last.ret = unpooled.ret
    /\ DeepVal(Heap, vars["v"], MaxDepth) = DeepVal(unpooled.h, unpooled.h.vars["v"], MaxDepth)

\* ---------------------------------------------------------------------------
\* Copies with a moved-from operand.  Json::Json(const Json&) and
\* Json::operator=(const Json&) evaluate  *impl_ = *other.impl_  without
\* looking at either pointer: with a moved-from operand the expression goes
\* through a null unique_ptr, which is undefined.

\* the heap after an access through a null impl_
NullImpl(h) ==
    [h EXCEPT !.log = Append(@, [ev |-> "null", rec |-> NoRec, to |-> NoRec,
                                 impl |-> NoImpl, count |-> 0])]

\* what an access through the null pointer does: the process is stopped by
\* SIGSEGV, or the access goes unnoticed and the statement completes
NullOutcomes == {"signal", "none"}

\* Json x = y;  with y moved-from: AcquireImpl has run when  *other.impl_
\* is evaluated
CopyConstructMoved(x, y, outcome) ==
    /\ x \notin scope /\ y \in scope /\ vars[y] = NoImpl
    /\ \E a \in {AcquireImpl(Heap)} :
          Done("CopyConstruct", x, <<>>, FALSE, y,
               IF outcome = "signal" THEN Raise(NullImpl(a.h), outcome)
               ELSE Ok(NullImpl(ConstructedInto(a, x)), RNone))
    /\ scope' = IF outcome = "signal" THEN scope ELSE scope \cup {x}

\* x = y;  with x or y moved-from and x, y different objects
CopyAssignMoved(x, y, outcome) ==
    /\ x \in scope /\ y \in scope /\ x # y
    /\ vars[x] = NoImpl \/ vars[y] = NoImpl
    /\ Done("CopyAssign", x, <<>>, FALSE, y,
            IF outcome = "signal" THEN Raise(NullImpl(Heap), outcome)
            ELSE Ok(NullImpl(Heap), RNone))
    /\ UNCHANGED scope

MaxOperandOps == 3

InitOperand ==
    /\ \E t \in MovedTexts : Install(AfterParse(EmptyHeap, "v", t))
    /\ scope = {"v"}
    /\ ref = VarLoc("")
    /\ last = NoLast
    /\ ops = 0
    /\ hist = NoHist
    /\ parsed = NoParsed
    /\ access_count_ = NoCounts
    /\ threads = NoThreads
    /\ unpooled = NoRun

\* the program is over once the process was stopped by a signal
OperandStep ==
    /\ last.err # "signal"
    /\ SeqTick(MaxOperandOps)
    /\ UNCHANGED <<ref, hist, parsed>>

NextOperand ==
    \/ \E x \in VarNames : OperandStep /\ MoveConstruct("c", x)
    \/ OperandStep /\ EndScope("c")
    \/ \E y \in VarNames : OperandStep /\ CopyConstruct("c", y)
    \/ \E x, y \in VarNames : OperandStep /\ CopyAssign(x, <<>>, y)
    \/ \E outcome \in NullOutcomes : \E y \in VarNames :
         OperandStep /\ CopyConstructMoved("c", y, outcome)
    \/ \E outcome \in NullOutcomes : \E x, y \in VarNames :
         OperandStep /\ CopyAssignMoved(x, y, outcome)
    \/ \E x \in VarNames :
         OperandStep /\ MutRead(x, <<>>, ReadOp("TypeQuery", "", <<>>, FALSE))

SpecOperand == InitOperand /\ [][NextOperand]_vars_all

\* the copy that the step makes has a moved-from operand
MovedOperand ==
    /\ last'.op \in {"CopyConstruct", "CopyAssign"}
    /\ \/ vars[last'.arg] = NoImpl
       \/ last'.op = "CopyAssign" /\ vars[last'.var] = NoImpl /\ last'.var # last'.arg

\* C27: a copy with a moved-from operand (copy construction from it, copy
\* assignment from it, copy assignment into it) is memory-safe: it raises the
\* generic exception or completes with a well-defined Json, and it never goes
\* through the absent Impl.
C27_CopyOfMovedIsSafe ==
    [][MovedOperand =>
         /\ last'.err \in {"none", "Exception"}
         /\ \A k \in DOMAIN last'.log : last'.log[k].ev # "null"]_vars_all

\* ---------------------------------------------------------------------------
\* Storing one Json inside another (SpecCycle).

\* the content of the Json that owns Impl j, and of its element at path
Whole(h, j) == DeepVal(h, j, MaxDepth + MaxCycleOps + 1)
StoredAt(h, j, path) == Whole(h, NavConst(h, j, path).j)

\* no Json of the program contains itself
Acyclic == \A x \in scope : vars[x] # NoImpl => ~Cyclic(vars[x])

\* ToString succeeds on every Json of the program in heap h
AllPrintIn(h) ==
    \A x \in VarNames :
        h.vars[x] # NoImpl => JsonToString(h, h.vars[x], FALSE).err = "none"
AllPrint == AllPrintIn(Heap)

\* where the step put the Json it stored: the path of the assignment, or
\* the end of the array for PushBack
StoredPath ==
    IF last'.op = "PushBack"
    THEN <<Step("idx", JsonSize(Heap, vars[last'.var]).ret.n, <<>>)>>
    ELSE last'.path

MaxWriterOps == 9

\* a clone-or-write decision that clones only above two owners
DecideAbove(count) == count > 2

\* data_.use_count() > 1
Decide(count) == count > 1

\* the scalar thread t writes
WriteVal(t) == NumP(IF t = "t1" THEN 2 ELSE 3)

\* EnsureUnique in thread t, the test: data_ && data_.use_count() > 1
ReadCount(t) ==
    /\ threads[t].pc = "idle" /\ threads[t].c # NoImpl
    /\ threads' = [threads EXCEPT ![t] =
                     [@ EXCEPT !.pc = "counted", !.op = "Set", !.on = "own",
                               !.key = <<>>,
                               !.reg = UseCount(Heap, data_[threads[t].c])]]
    /\ UNCHANGED <<data_, value_, access_count_>>

\* make_shared<COW_Data>() and the start of  new_data->value_ = data_->value_
BeginClone(t) ==
    /\ threads[t].pc = "counted" /\ Decide(threads[t].reg)
    /\ threads' = [threads EXCEPT ![t] = [@ EXCEPT !.pc = "cloning"]]
    /\ UNCHANGED <<data_, value_, access_count_>>

\* the end of the copy, and  data_ = std::move(new_data)
FinishClone(t) ==
    /\ threads[t].pc = "cloning"
    /\ \E h \in {MakeShared(ThreadHeap(t), NewRec(ThreadHeap(t)), NullP)} :
          ThreadCommit(t, CloneInto(h, threads[t].c, data_[threads[t].c],
                                    NewRec(ThreadHeap(t)), threads[t].reg),
                       [threads[t] EXCEPT !.pc = "unique"])
    /\ UNCHANGED access_count_

\* the assignment to data_->value_ that Set makes after EnsureUnique
WriteOwn(t) ==
    /\ \/ threads[t].pc = "unique"
       \/ threads[t].pc = "counted" /\ ~Decide(threads[t].reg)
    /\ ThreadCommit(t, WriteValue(ThreadHeap(t), threads[t].c, WriteVal(t)),
                    [threads[t] EXCEPT !.pc = "idle", !.err = "none",
                                       !.ret = RNone])
    /\ UNCHANGED access_count_

WriterTexts == {TxtObj, TxtArr, TxtObjArr}

InitWriters ==
    /\ \E t \in WriterTexts : Install(AfterParse(EmptyHeap, "v", t))
    /\ scope = {"v"}
    /\ ref = VarLoc("")
    /\ last = NoLast
    /\ ops = 0
    /\ hist = NoHist
    /\ parsed = NoParsed
    /\ access_count_ = NoCounts
    /\ threads = NoThreads
    /\ unpooled = NoRun

WriterStep ==
    /\ Tick(MaxWriterOps)
    /\ UNCHANGED <<object_pool_, warm, warmed, vars, scope, ref, last, hist, parsed,
                   unpooled>>

MainStep ==
    /\ \A t \in Threads : threads[t].c # NoImpl
    /\ SeqTick(MaxWriterOps)
    /\ UNCHANGED <<ref, hist, parsed>>

NextWriters ==
    \/ MainStep /\ EndScope("v")
    \/ MainStep /\ ParseInto("c", TxtNum)
    \/ \E t \in Threads : vars["v"] # NoImpl /\ WriterStep /\ ThreadCopy(t)
    \/ \E t \in Threads : WriterStep /\ ReadCount(t)
    \/ \E t \in Threads : WriterStep /\ BeginClone(t)
    \/ \E t \in Threads : WriterStep /\ FinishClone(t)
    \/ \E t \in Threads : WriterStep /\ WriteOwn(t)
    \/ \E t \in Threads : WriterStep /\ ThreadDrop(t)

SpecWriters == InitWriters /\ [][NextWriters]_vars_all

\* what the Json of thread t shows in heap h
OwnValue(h, t) == DeepVal(h, threads[t].c, MaxDepth + 1)

\* the Impls of the Jsons that are alive
Alive == ({vars[x] : x \in VarNames} \cup {threads[t].c : t \in Threads}) \ {NoImpl}

\* no record that an alive Json reaches was freed
NoneFreed == \A j \in Alive : \A r \in Within({data_[j]}) : value_[r].tag # "Free"

\* C30: two threads that write their own Jsons, which share a record with
\* each other and with v, do not disturb each other under any interleaving
\* of the steps of EnsureUnique and of the writes: a write shows in the Json
\* of the thread that made it and in no other, no record is written while a
\* thread is copying it, and no record that a Json holds is freed.
C30_WritersApart ==
    [][\A after \in {Heap'} :
        /\ \A t \in Threads :
            /\ (threads[t].pc = "cloning" /\ threads'[t].pc = "cloning")
                 => value_'[data_[threads[t].c]] = value_[data_[threads[t].c]]
            /\ (threads'[t].c = threads[t].c /\ threads'[t].pc = threads[t].pc)
                 => OwnValue(after, t) = OwnValue(Heap, t)
            /\ (threads[t].pc # "idle" /\ threads'[t].pc = "idle")
                 => OwnValue(after, t) = [tag |-> "Number", b |-> FALSE,
                                          n |-> WriteVal(t).n, s |-> <<>>,
                                          kids |-> <<>>]
        /\ \A x \in VarNames :
             vars'[x] = vars[x]
                 => DeepVal(after, vars[x], MaxDepth + 1) = DeepVal(Heap, vars[x], MaxDepth + 1)
        /\ NoneFreed']_vars_all

\* the Jsons of the two threads alone shared a record; both read the count
\* 2, thread t2 has made its clone and left the record, and thread t1 is
\* copying it, now its only owner
C30_Witness ==
    /\ threads["t1"].pc = "cloning" /\ threads["t1"].reg = 2
    /\ UseCount(Heap, data_[threads["t1"].c]) = 1
    /\ threads["t2"].pc = "unique" /\ threads["t2"].reg = 2
    /\ vars["v"] = NoImpl

====
